---- MODULE Spec2Model ----
(***************************************************************************)
(* Model of geopolars' GeoArrow reprojection engine                        *)
(* (py-geopolars/geopolars/proj/reproject.py): reproject_column, the       *)
(* lru_cache'd TransformerFromCRS, the ThreadPoolExecutor.map fan-out over *)
(* the chunks of a column, and the per-chunk offset decomposition /        *)
(* coordinate transform / recomposition; and of read_file                  *)
(* (py-geopolars/python/geopolars/io/file.py) with GeoDataFrame.__init__.  *)
(***************************************************************************)
EXTENDS Integers, Sequences, FiniteSets, TLC

VARIABLES
    cache,       \* TransformerFromCRS' entries, least recently used first
    nextHandle,  \* number of Transformer.from_crs constructions so far + 1
    pc,          \* per caller: position inside reproject_column
    args,        \* per caller: the field and column objects the caller
                 \* passed to the running/last call, as they are in memory
    local,       \* per caller: existing_crs, cache key, transformer
    futures,     \* per caller: one future per submitted chunk
    results,     \* per caller: chunks collected by list(executor.map(..))
    outcome,     \* per caller: what the call returned or raised
    trace,       \* per caller: history counters of the running/last call
    started,     \* per caller: number of calls started
    scanPos,     \* scan workload: index of the next key of the scan
    recency      \* history: the requests served so far, one entry per key,
                 \* the most recently served first

vars == <<cache, nextHandle, pc, args, local, futures, results, outcome,
          trace, started, scanPos, recency>>

-----------------------------------------------------------------------------
(* Bounds of the model *)

MaxChunks == 3
MaxWorkers == 2
MaxCallsPerThread == 2
NumScanCRS == 12
MaxSeriesLen == 2

(* functools.lru_cache(user_function) keeps maxsize at its default *)
LruMaxSize == 128

Callers == {"t1", "t2"}

-----------------------------------------------------------------------------
(* Generic helpers *)

None == [kind |-> "null"]

Error(type, msg) == [kind |-> "error", type |-> type, msg |-> msg]

IsError(v) == v.kind = "error"

(* dict.get(key): None when the key is missing *)
DictGet(d, k) == IF k \in DOMAIN d THEN d[k] ELSE None

-----------------------------------------------------------------------------
(* GeoArrow extension names and coordinate dimensions (internals/enums.py) *)

POINT == "geoarrow.point"
LINESTRING == "geoarrow.linestring"
POLYGON == "geoarrow.polygon"
MULTIPOINT == "geoarrow.multipoint"
MULTILINESTRING == "geoarrow.multilinestring"
MULTIPOLYGON == "geoarrow.multipolygon"
BOX == "geoarrow.box"
WKB == "geoarrow.wkb"
WKT == "geoarrow.wkt"
OGC_WKB == "ogc.wkb"

GeoArrowExtensionName ==
    {POINT, LINESTRING, POLYGON, MULTIPOINT, MULTILINESTRING, MULTIPOLYGON,
     BOX, WKB, WKT, OGC_WKB}

(* mutant: every leaf is rebuilt three wide *)
CoordinateDimensionLenXYZ(dims) == 3

(* CoordinateDimension.XY / XYZ are the strings "xy" / "xyz"; len(dims) *)
CoordinateDimensionLen(dims) == IF dims = "xy" THEN 2 ELSE 3

ExtNameKey == "ARROW:extension:name"
ExtMetaKey == "ARROW:extension:metadata"

-----------------------------------------------------------------------------
(* pyproj CRS values.  A user input is a string (an authority code or a    *)
(* PROJJSON text, or text pyproj cannot parse) or a CRS object; `id' is   *)
(* the coordinate reference system the text denotes.                       *)

CRSStr(form, id) == [kind |-> "str", form |-> form, id |-> id]
CRSObj(id) == [kind |-> "CRS", form |-> "wkt", id |-> id]
BogusCRS == CRSStr("bogus", 0)

IsValidCRSInput(v) == v.kind = "CRS" \/ v.form \in {"code", "json"}

(* CRS(value): parse a user input into a CRS object *)
CRS(v) ==
    IF IsValidCRSInput(v) THEN CRSObj(v.id)
    ELSE Error("CRSError", "Invalid projection")

(* mutant: the CRS object is compared with the value as given *)
CRSEqualsAsGiven(crs, other) == crs = other

(* CRS.__eq__(other): other is parsed first; unparsable input is unequal *)
CRSEquals(crs, other) ==
    IF IsError(CRS(other)) THEN FALSE ELSE crs.id = CRS(other).id

(* CRS.to_json(): the PROJJSON text of the CRS *)
CRSToJson(crs) == CRSStr("json", crs.id)

(* json.dumps / json.loads of a dict *)
JsonDumps(obj) == [kind |-> "json", obj |-> obj]
JsonLoads(text) == text.obj

(* the same object written without the spaces json.dumps puts after its    *)
(* separators: another text                                                *)
JsonCompact(obj) == [kind |-> "json", obj |-> obj, form |-> "compact"]
EmptyText == [kind |-> "text", text |-> ""]
SphericalText == [kind |-> "text", text |-> "spherical"]

-----------------------------------------------------------------------------
(* arro3 arrays: a nested list array is its stack of offset arrays         *)
(* (outermost level first) over a fixed-size-list leaf of width `dim'     *)
(* holding the flat float buffer `coords'.                                *)

Arr(offsets, dim, coords) ==
    [kind |-> "array", offsets |-> offsets, dim |-> dim, coords |-> coords]

(* arro3.compute.list_offsets(arr, logical=True) *)
list_offsets(arr) == Head(arr.offsets)

(* arro3.compute.list_flatten(arr) on a list array *)
list_flatten(arr) == [arr EXCEPT !.offsets = Tail(@)]

(* the offsets that differ from the one before them *)
Compact(offsets) ==
    LET keep == {i \in DOMAIN offsets : i = 1 \/ offsets[i] # offsets[i - 1]}
    IN  [k \in 1..Cardinality(keep) |->
            offsets[CHOOSE i \in keep : Cardinality({j \in keep : j <= i}) = k]]

(* mutant: a list array is built without its empty lists *)
list_array_compact(offsets, values) ==
    [values EXCEPT !.offsets = <<Compact(offsets)>> \o @]

(* arro3.core.list_array(offsets, values) *)
list_array(offsets, values) == [values EXCEPT !.offsets = <<offsets>> \o @]

(* number of fixed-size tuples of the leaf *)
NumTuples(arr) == IF arr.dim = 0 THEN 0 ELSE Len(arr.coords) \div arr.dim

(* len(array): logical length of a chunk *)
ArrayLen(arr) ==
    IF arr.offsets = <<>> THEN NumTuples(arr) ELSE Len(Head(arr.offsets)) - 1

-----------------------------------------------------------------------------
(* pyproj Transformer handles.  The projection mathematics is the          *)
(* collaborator's; any fixed map of points that is not the identity and    *)
(* mixes the axes stands for it.  `env' is the collaborator's outcome:    *)
(* FALSE when transformer.transform raises; the exception is told apart    *)
(* from those of other chunks by the arrays it was raised for.             *)

Transformer(id, src, dst) ==
    [kind |-> "transformer", id |-> id, src |-> src, dst |-> dst]

NoTransformer == [kind |-> "null", id |-> 0, src |-> 0, dst |-> 0]

(* a callback that returns the leaf unchanged: the pipeline that maps      *)
(* every point to itself.  Transformer.from_crs numbers its handles from 1 *)
NoopTransformer == Transformer(0, 0, 0)

TransformAxis(t, cols, a, k) ==
    IF t = NoopTransformer THEN cols[a][k]
    ELSE CASE a = 1 -> 2 * cols[1][k] + cols[2][k] + t.dst
           [] a = 2 -> cols[1][k] + 3 * cols[2][k] + t.src
           [] OTHER -> cols[a][k] + 1

(* transformer.transform(xx, yy[, zz]): one output array per input array *)
transformer_transform(t, cols, env) ==
    IF ~env THEN Error("ProjError", <<"transform failed", cols>>)
    ELSE [kind |-> "axes",
          axes |-> [a \in 1..Len(cols) |->
                      [k \in 1..Len(cols[1]) |-> TransformAxis(t, cols, a, k)]]]

(* mutant: the transformer writes its results over the arrays it is given *)
BufferAfterTransformInplace(arr, out) ==
    IF IsError(out) THEN arr ELSE [arr EXCEPT !.coords = out.coords]

(* the arrays handed to transformer.transform are views of the chunk's     *)
(* buffer (to_numpy, reshape and [:, a] do not copy); transform is called  *)
(* with inplace at its default, False, and returns new arrays: the chunk   *)
(* is after func(chunk) what it was before                                 *)
BufferAfterTransform(arr, out) == arr

(* list_flatten(arr).to_numpy().reshape(-1, list_size)[:, a - 1] *)
Column(arr, list_size, a) ==
    [k \in 1..(Len(arr.coords) \div list_size) |->
        arr.coords[(k - 1) * list_size + a]]

(* mutant: the rows of the stacked columns are written last row first *)
ColumnStackRavelReversed(cols) ==
    [j \in 1..(Len(cols) * Len(cols[1])) |->
        cols[((j - 1) % Len(cols)) + 1][Len(cols[1]) - ((j - 1) \div Len(cols))]]

(* mutant: the stacked columns are unravelled column by column *)
ColumnStackRavelF(cols) ==
    [j \in 1..(Len(cols) * Len(cols[1])) |->
        cols[((j - 1) \div Len(cols[1])) + 1][((j - 1) % Len(cols[1])) + 1]]

(* np.column_stack(cols).ravel("C") *)
ColumnStackRavel(cols) ==
    [j \in 1..(Len(cols) * Len(cols[1])) |->
        cols[((j - 1) % Len(cols)) + 1][((j - 1) \div Len(cols)) + 1]]

(* fixed_size_list_array(values, len(dims), type=coord_field) *)
fixed_size_list_array(values, list_size) == Arr(<<>>, list_size, values)

(* mutant: a leaf wider than three is transformed on its first three axes *)
_reproject_coords_any_width(arr, transformer, env) ==
    LET list_size == arr.dim
        out(n) == transformer_transform(
                      transformer,
                      [a \in 1..n |-> Column(arr, list_size, a)], env)
        build(o, dims) ==
            IF IsError(o) THEN o
            ELSE fixed_size_list_array(ColumnStackRavel(o.axes),
                                       CoordinateDimensionLen(dims))
    IN  IF list_size = 2 THEN build(out(2), "xy")
        ELSE build(out(3), "xyz")

_reproject_coords(arr, transformer, env) ==
    LET list_size == arr.dim
        out(n) == transformer_transform(
                      transformer,
                      [a \in 1..n |-> Column(arr, list_size, a)], env)
        build(o, dims) ==
            IF IsError(o) THEN o
            ELSE fixed_size_list_array(ColumnStackRavel(o.axes),
                                       CoordinateDimensionLen(dims))
    IN  IF list_size = 2 THEN build(out(2), "xy")
        ELSE IF list_size = 3 THEN build(out(3), "xyz")
        ELSE Error("ValueError", "Unexpected list size")

(* whether _reproject_coords reaches transformer.transform *)
InvokesTransform(arr) == arr.dim \in {2, 3}

(* In each routine `callback' is partial(_reproject_coords,               *)
(* transformer=transformer), bound by _reproject_chunk_nest_N.             *)
_map_coords_nest_0(arr, transformer, env) ==
    LET callback(a) == _reproject_coords(a, transformer, env)
        new_coords == callback(arr)
    IN  new_coords

_map_coords_nest_1(arr, transformer, env) ==
    LET callback(a) == _reproject_coords(a, transformer, env)
        geom_offsets == list_offsets(arr)
        coords == list_flatten(arr)
        new_coords == callback(coords)
    IN  IF IsError(new_coords) THEN new_coords
        ELSE list_array(geom_offsets, new_coords)

(* mutant: the offsets are reapplied from the outermost level inward *)
_map_coords_nest_2_outward(arr, transformer, env) ==
    LET callback(a) == _reproject_coords(a, transformer, env)
        geom_offsets == list_offsets(arr)
        ring_offsets == list_offsets(list_flatten(arr))
        coords == list_flatten(list_flatten(arr))
        new_coords == callback(coords)
    IN  IF IsError(new_coords) THEN new_coords
        ELSE list_array(ring_offsets, list_array(geom_offsets, new_coords))

_map_coords_nest_2(arr, transformer, env) ==
    LET callback(a) == _reproject_coords(a, transformer, env)
        geom_offsets == list_offsets(arr)
        ring_offsets == list_offsets(list_flatten(arr))
        coords == list_flatten(list_flatten(arr))
        new_coords == callback(coords)
    IN  IF IsError(new_coords) THEN new_coords
        ELSE list_array(geom_offsets, list_array(ring_offsets, new_coords))

(* mutant: the polygon and ring offsets are applied at each other's level *)
_map_coords_nest_3_swapped(arr, transformer, env) ==
    LET callback(a) == _reproject_coords(a, transformer, env)
        geom_offsets == list_offsets(arr)
        polygon_offsets == list_offsets(list_flatten(arr))
        ring_offsets == list_offsets(list_flatten(list_flatten(arr)))
        coords == list_flatten(list_flatten(list_flatten(arr)))
        new_coords == callback(coords)
    IN  IF IsError(new_coords) THEN new_coords
        ELSE list_array(geom_offsets,
                 list_array(ring_offsets,
                     list_array(polygon_offsets, new_coords)))

_map_coords_nest_3(arr, transformer, env) ==
    LET callback(a) == _reproject_coords(a, transformer, env)
        geom_offsets == list_offsets(arr)
        polygon_offsets == list_offsets(list_flatten(arr))
        ring_offsets == list_offsets(list_flatten(list_flatten(arr)))
        coords == list_flatten(list_flatten(list_flatten(arr)))
        new_coords == callback(coords)
    IN  IF IsError(new_coords) THEN new_coords
        ELSE list_array(geom_offsets,
                 list_array(polygon_offsets,
                     list_array(ring_offsets, new_coords)))

_reproject_chunk_nest_0(arr, transformer, env) ==
    _map_coords_nest_0(arr, transformer, env)

_reproject_chunk_nest_1(arr, transformer, env) ==
    _map_coords_nest_1(arr, transformer, env)

_reproject_chunk_nest_2(arr, transformer, env) ==
    _map_coords_nest_2(arr, transformer, env)

_reproject_chunk_nest_3(arr, transformer, env) ==
    _map_coords_nest_3(arr, transformer, env)

(* mutant: a box column is handled as a point column *)
SelectFuncBoxAsPoint(extension_type_name) ==
    IF extension_type_name \in {POINT, BOX} THEN 0
    ELSE IF extension_type_name \in {LINESTRING, MULTIPOINT} THEN 1
    ELSE IF extension_type_name \in {POLYGON, MULTILINESTRING} THEN 2
    ELSE IF extension_type_name = MULTIPOLYGON THEN 3
    ELSE -1

(* mutant: multipoint is listed with the routines of depth 2 *)
SelectFuncMultipointAsPolygon(extension_type_name) ==
    IF extension_type_name = POINT THEN 0
    ELSE IF extension_type_name = LINESTRING THEN 1
    ELSE IF extension_type_name \in {POLYGON, MULTILINESTRING, MULTIPOINT} THEN 2
    ELSE IF extension_type_name = MULTIPOLYGON THEN 3
    ELSE -1

(* the if/elif chain of _reproject_column: which routine `func' is *)
SelectFunc(extension_type_name) ==
    IF extension_type_name = POINT THEN 0
    ELSE IF extension_type_name \in {LINESTRING, MULTIPOINT} THEN 1
    ELSE IF extension_type_name \in {POLYGON, MULTILINESTRING} THEN 2
    ELSE IF extension_type_name = MULTIPOLYGON THEN 3
    ELSE -1

(* func(chunk) for the routine selected by SelectFunc *)
ApplyFunc(nest, arr, transformer, env) ==
    CASE nest = 0 -> _reproject_chunk_nest_0(arr, transformer, env)
      [] nest = 1 -> _reproject_chunk_nest_1(arr, transformer, env)
      [] nest = 2 -> _reproject_chunk_nest_2(arr, transformer, env)
      [] OTHER -> _reproject_chunk_nest_3(arr, transformer, env)

-----------------------------------------------------------------------------
(* arro3 Field and ChunkedArray *)

Text(t) == [kind |-> "text", text |-> t]

DataType(depth, dim) == [depth |-> depth, dim |-> dim]

ArrayType(arr) == DataType(Len(arr.offsets), arr.dim)

Field(name, type, metadata) ==
    [name |-> name, type |-> type, nullable |-> TRUE, metadata |-> metadata]

(* Field.with_type(new_type) *)
with_type(field, new_type) == [field EXCEPT !.type = new_type]

(* Field.with_metadata(metadata): the field's metadata becomes `metadata' *)
with_metadata(field, metadata) == [field EXCEPT !.metadata = metadata]

(* ChunkedArray(arrays).type *)
ChunkedArrayType(chunks) == ArrayType(chunks[1])

(* mutant: a field without CRS is taken to be in CRS 1 *)
get_field_crs_default(field) ==
    LET extension_metadata_value == DictGet(field.metadata, ExtMetaKey)
        crs == IF extension_metadata_value.kind = "null"
                  \/ extension_metadata_value = EmptyText
               THEN None
               ELSE DictGet(JsonLoads(extension_metadata_value), "crs")
    IN  IF crs.kind = "null" THEN CRSStr("code", 1) ELSE crs

get_field_crs(field) ==
    LET extension_metadata_value == DictGet(field.metadata, ExtMetaKey)
    IN  IF extension_metadata_value.kind = "null"
           \/ extension_metadata_value = EmptyText
        THEN None
        ELSE DictGet(JsonLoads(extension_metadata_value), "crs")

(* mutant: the CRS entry is written from the source CRS *)
NewFieldSourceCRS(field, to_crs, new_chunked_array) ==
    LET extension_type_name == field.metadata[ExtNameKey]
        new_extension_meta_meta ==
            [k \in {"crs"} |->
                CRSToJson(CRS(JsonLoads(field.metadata[ExtMetaKey])["crs"]))]
        new_extension_metadata ==
            [k \in {ExtNameKey, ExtMetaKey} |->
                IF k = ExtNameKey THEN extension_type_name
                ELSE JsonDumps(new_extension_meta_meta)]
    IN  with_metadata(with_type(field, ChunkedArrayType(new_chunked_array)),
                      new_extension_metadata)

(* lines 67-72 and 80-82 of reproject_column: the field that is returned *)
NewField(field, to_crs, new_chunked_array) ==
    LET extension_type_name == field.metadata[ExtNameKey]
        new_extension_meta_meta == [k \in {"crs"} |-> CRSToJson(CRS(to_crs))]
        new_extension_metadata ==
            [k \in {ExtNameKey, ExtMetaKey} |->
                IF k = ExtNameKey THEN extension_type_name
                ELSE JsonDumps(new_extension_meta_meta)]
    IN  with_metadata(with_type(field, ChunkedArrayType(new_chunked_array)),
                      new_extension_metadata)

-----------------------------------------------------------------------------
(* TransformerFromCRS = lru_cache(Transformer.from_crs) *)

(* mutant: the destination is left out of the key *)
MakeKeyWithoutDestination(existing_crs, to_crs, always_xy) ==
    <<existing_crs, always_xy>>

(* the cache key of TransformerFromCRS(existing_crs, to_crs, always_xy=True) *)
MakeKey(existing_crs, to_crs, always_xy) == <<existing_crs, to_crs, always_xy>>

Entry(key, handle) == [key |-> key, handle |-> handle]

CacheKeys(entries) == {entries[i].key : i \in DOMAIN entries}

CacheIndex(entries, key) ==
    IF key \in CacheKeys(entries)
    THEN CHOOSE i \in DOMAIN entries : entries[i].key = key
    ELSE 0

RemoveAt(s, i) == SubSeq(s, 1, i - 1) \o SubSeq(s, i + 1, Len(s))

(* mutant: a hit leaves the entry where it is (first in, first out) *)
LruHitNoMove(entries, i) == entries

(* a hit moves the entry to the most recently used end *)
LruHit(entries, i) == Append(RemoveAt(entries, i), entries[i])

(* mutant: the wrapper returns the result and stores nothing *)
LruInsertNothing(entries, key, handle) == entries

(* mutant: the result is stored without looking for the key again *)
LruInsertAlways(entries, key, handle) ==
    IF Len(entries) >= LruMaxSize
    THEN Append(Tail(entries), Entry(key, handle))
    ELSE Append(entries, Entry(key, handle))

(* after the user function returned: store the result unless the key was   *)
(* added meanwhile; a full cache drops its least recently used entry       *)
LruInsert(entries, key, handle) ==
    IF key \in CacheKeys(entries) THEN entries
    ELSE IF Len(entries) >= LruMaxSize
         THEN Append(Tail(entries), Entry(key, handle))
         ELSE Append(entries, Entry(key, handle))

(* mutant: the collaborator's error is replaced by one of the engine's *)
from_crs_wrapped(id, crs_from, crs_to) ==
    IF IsError(CRS(crs_to))
    THEN Error("ValueError", "cannot build a transformer")
    ELSE Transformer(id, crs_from.id, CRS(crs_to).id)

(* Transformer.from_crs(crs_from, crs_to, always_xy=True) *)
from_crs(id, crs_from, crs_to) ==
    IF IsError(CRS(crs_to)) THEN CRS(crs_to)
    ELSE Transformer(id, crs_from.id, CRS(crs_to).id)

(* history: a request for `key' was served (by a hit, or by storing the    *)
(* transformer built after a miss) and returned `handle'                  *)
Touch(served, key, handle) ==
    <<Entry(key, handle)>> \o SelectSeq(served, LAMBDA e : e.key # key)

-----------------------------------------------------------------------------
(* concurrent.futures: ThreadPoolExecutor(max_workers).map(func, chunks) *)

(* max_workers=None: the pool takes min(32, cpu_count + 4) workers, which  *)
(* is 5 on one processor and never fewer                                  *)
DefaultMaxWorkers == 5

IntArg(n) == [kind |-> "int", value |-> n]

(* mutant: the pool starts one thread more than it was told *)
WorkerLimitPlusOne(max_workers) ==
    IF max_workers.kind = "null" THEN DefaultMaxWorkers
    ELSE max_workers.value + 1

WorkerLimit(max_workers) ==
    IF max_workers.kind = "null" THEN DefaultMaxWorkers ELSE max_workers.value

Future(state, value) == [state |-> state, value |-> value]

NumInState(fs, st) == Cardinality({i \in DOMAIN fs : fs[i].state = st})

(* work items are queued in submission order *)
NextPending(fs) ==
    CHOOSE i \in DOMAIN fs :
        /\ fs[i].state = "pending"
        /\ \A j \in DOMAIN fs : fs[j].state = "pending" => i <= j

(* mutant: the reversed list of futures is consumed from its front *)
ResultSlotReversed(fs, k) == Len(fs) + 1 - k

(* mutant: a chunk's exception is swallowed *)
FailedIgnored(future) == FALSE

(* the k-th result the iterator of executor.map yields is that of the k-th *)
(* future submitted                                                        *)
ResultSlot(fs, k) == k

(* future.result() raises the exception func raised *)
Failed(future) == future.state = "failed"

(* mutant: every work item is given the first chunk *)
ChunkOfFirst(column, i) == column[1]

(* executor.map(func, column.chunks): the i-th work item is func on the    *)
(* i-th chunk                                                              *)
ChunkOf(column, i) == column[i]

(* mutant: the caller stops taking results after the first one *)
ExhaustedAfterFirst(fs, n) == TRUE

(* list(..) ends when the result iterator is exhausted: when the n-th      *)
(* result taken was that of the last future                                *)
Exhausted(fs, n) == n = Len(fs)

(* mutant: the pool is shut down without waiting for its threads *)
JoinedNoWait(fs) == TRUE

(* executor.shutdown(wait=True), the exit of the with block, returns when  *)
(* the work queue is drained and every pool thread has ended               *)
Joined(fs) == NumInState(fs, "pending") = 0 /\ NumInState(fs, "running") = 0

(* the result iterator's finally clause: future.cancel() on what is left *)
CancelPending(fs) ==
    [i \in DOMAIN fs |->
        IF fs[i].state = "pending" THEN Future("cancelled", None) ELSE fs[i]]

-----------------------------------------------------------------------------
(* Inputs of reproject_column *)

SpecCRS == {1, 2}

SupportedNames ==
    {POINT, LINESTRING, POLYGON, MULTIPOINT, MULTILINESTRING, MULTIPOLYGON}

ListSizes == {2, 3, 4}

(* the offset arrays (outermost first) and the number of coordinate tuples *)
(* of the k-th chunk of a column of nesting depth `depth'; empty children *)
(* occur at every level                                                    *)
Shape(depth, k) ==
    CASE depth = 0 /\ k = 1 -> [offsets |-> <<>>, n |-> 2]
      [] depth = 0 /\ k = 2 -> [offsets |-> <<>>, n |-> 1]
      [] depth = 0 /\ k > 2 -> [offsets |-> <<>>, n |-> 0]
      [] depth = 1 /\ k = 1 -> [offsets |-> << <<0, 2, 2, 3>> >>, n |-> 3]
      [] depth = 1 /\ k = 2 -> [offsets |-> << <<0, 1>> >>, n |-> 1]
      [] depth = 1 /\ k > 2 -> [offsets |-> << <<0>> >>, n |-> 0]
      [] depth = 2 /\ k = 1 ->
            [offsets |-> << <<0, 2, 2>>, <<0, 2, 3>> >>, n |-> 3]
      [] depth = 2 /\ k = 2 -> [offsets |-> << <<0, 1>>, <<0, 4>> >>, n |-> 4]
      [] depth = 2 /\ k > 2 -> [offsets |-> << <<0, 1>>, <<0, 0>> >>, n |-> 0]
      [] depth = 3 /\ k = 1 ->
            [offsets |-> << <<0, 2>>, <<0, 1, 1>>, <<0, 2>> >>, n |-> 2]
      [] depth = 3 /\ k = 2 ->
            [offsets |-> << <<0, 1>>, <<0, 1>>, <<0, 1>> >>, n |-> 1]
      [] OTHER -> [offsets |-> << <<0>>, <<0>>, <<0>> >>, n |-> 0]

(* the k-th chunk: its coordinate values tell the chunks apart *)
Chunk(depth, list_size, k) ==
    Arr(Shape(depth, k).offsets, list_size,
        [j \in 1..(Shape(depth, k).n * list_size) |-> 10 * k + j])

(* a chunk of an encoding that is no nested list (box, WKB, WKT) *)
OpaqueChunk == Arr(<<>>, 0, <<>>)

ColumnOf(depth, list_size, n) == [k \in 1..n |-> Chunk(depth, list_size, k)]

Columns(extension_type_name) ==
    IF extension_type_name \in SupportedNames
    THEN {ColumnOf(SelectFunc(extension_type_name), d, n) :
            d \in ListSizes, n \in 1..MaxChunks}
    ELSE {<<OpaqueChunk>>}

(* what the field carries under ARROW:extension:metadata: no such key, an *)
(* empty string, JSON without a crs entry, JSON with a null crs entry, or  *)
(* JSON whose crs entry is a CRS string; with `extra' the JSON also has   *)
(* an "edges" entry and the field a metadata key of its own.              *)
AbsentKey == [kind |-> "absent"]
EmptyValue == [kind |-> "empty"]
NoCrsEntry == [kind |-> "nocrs"]
NullCrsEntry == [kind |-> "null"]

ExtensionObject(crs, extra) ==
    [k \in (IF crs.kind = "nocrs" THEN {} ELSE {"crs"})
             \cup (IF extra THEN {"edges"} ELSE {}) |->
        IF k = "edges" THEN SphericalText
        ELSE IF crs.kind = "null" THEN None ELSE crs]

FieldMetadata(extension_type_name, crs, extra) ==
    [k \in {ExtNameKey}
             \cup (IF crs.kind = "absent" THEN {} ELSE {ExtMetaKey})
             \cup (IF extra THEN {"custom"} ELSE {}) |->
        IF k = ExtNameKey THEN Text(extension_type_name)
        ELSE IF k = "custom" THEN Text("value")
        ELSE IF crs.kind = "empty" THEN EmptyText
        ELSE JsonDumps(ExtensionObject(crs, extra))]

MakeField(extension_type_name, crs, extra, column) ==
    Field("geometry", ChunkedArrayType(column),
          FieldMetadata(extension_type_name, crs, extra))

Args(field, column, to_crs, max_workers) ==
    [field |-> field, column |-> column, to_crs |-> to_crs,
     max_workers |-> max_workers]

FieldCRSValues ==
    {AbsentKey, EmptyValue, NoCrsEntry, NullCrsEntry, BogusCRS}
        \cup {CRSStr(f, i) : f \in {"code", "json"}, i \in SpecCRS}

ToCRSValues ==
    {CRSStr("code", i) : i \in SpecCRS} \cup {CRSObj(i) : i \in SpecCRS}
        \cup {BogusCRS}

MaxWorkersValues == {None} \cup {IntArg(n) : n \in 0..MaxWorkers}

-----------------------------------------------------------------------------
(* Per-caller state *)

NoLocal == [existing_crs |-> None, key |-> <<>>, transformer |-> NoTransformer]

NoOutcome == [kind |-> "none"]

Returned(field, column) ==
    [kind |-> "returned", field |-> field, column |-> column]

Raised(error) == [kind |-> "raised", error |-> error]

ReturnedValue(value) == [kind |-> "returned", value |-> value]

NoTrace ==
    [lookups |-> 0, hits |-> 0, builds |-> 0, submits |-> 0, transforms |-> 0,
     order |-> <<>>]

NoArgs == Args(Field("", DataType(0, 0), <<>>), <<>>, None, None)

Finished(c) == pc[c] \in {"returned", "raised"}

Init ==
    /\ cache = <<>>
    /\ nextHandle = 1
    /\ pc = [c \in Callers |-> "idle"]
    /\ args = [c \in Callers |-> NoArgs]
    /\ local = [c \in Callers |-> NoLocal]
    /\ futures = [c \in Callers |-> <<>>]
    /\ results = [c \in Callers |-> <<>>]
    /\ outcome = [c \in Callers |-> NoOutcome]
    /\ trace = [c \in Callers |-> NoTrace]
    /\ started = [c \in Callers |-> 0]
    /\ scanPos = 2
    /\ recency = <<>>

-----------------------------------------------------------------------------
(* reproject_column, lines 55-63: resolve the source CRS, raise when the   *)
(* field has none or pyproj cannot parse it, return the inputs when it     *)
(* equals to_crs                                                           *)
reproject_column(c, field, column, to_crs, max_workers) ==
    LET crs_str == get_field_crs(field)
        existing_crs == CRS(crs_str)
    IN  /\ args' = [args EXCEPT ![c] = Args(field, column, to_crs, max_workers)]
        /\ futures' = [futures EXCEPT ![c] = <<>>]
        /\ results' = [results EXCEPT ![c] = <<>>]
        /\ trace' = [trace EXCEPT ![c] = NoTrace]
        /\ IF crs_str.kind = "null"
           THEN /\ pc' = [pc EXCEPT ![c] = "raised"]
                /\ outcome' = [outcome EXCEPT ![c] = Raised(
                       Error("ValueError",
                             "No CRS found on source geometry column."))]
                /\ local' = [local EXCEPT ![c] = NoLocal]
           ELSE IF IsError(existing_crs)
           THEN /\ pc' = [pc EXCEPT ![c] = "raised"]
                /\ outcome' = [outcome EXCEPT ![c] = Raised(existing_crs)]
                /\ local' = [local EXCEPT ![c] = NoLocal]
           ELSE IF CRSEquals(existing_crs, to_crs)
           THEN /\ pc' = [pc EXCEPT ![c] = "returned"]
                /\ outcome' = [outcome EXCEPT ![c] = Returned(field, column)]
                /\ local' = [local EXCEPT ![c] =
                                [NoLocal EXCEPT !.existing_crs = existing_crs]]
           ELSE /\ pc' = [pc EXCEPT ![c] = "lookup"]
                /\ outcome' = [outcome EXCEPT ![c] = NoOutcome]
                /\ local' = [local EXCEPT ![c] =
                                [NoLocal EXCEPT
                                    !.existing_crs = existing_crs,
                                    !.key = MakeKey(existing_crs, to_crs, TRUE)]]
        /\ UNCHANGED <<cache, nextHandle, recency>>

(* one call with any field, column, destination and worker count *)
Call(c) ==
    /\ c = "t1"
    /\ pc[c] = "idle"
    /\ \E name \in GeoArrowExtensionName, crs \in FieldCRSValues,
          extra \in BOOLEAN, to_crs \in ToCRSValues,
          max_workers \in MaxWorkersValues :
         \E column \in Columns(name) :
            reproject_column(c, MakeField(name, crs, extra, column), column,
                             to_crs, max_workers)
    /\ started' = [started EXCEPT ![c] = @ + 1]
    /\ UNCHANGED scanPos

(* line 65, the wrapper's lookup: a hit returns the cached transformer *)
CacheLookup(c) ==
    /\ pc[c] = "lookup"
    /\ LET i == CacheIndex(cache, local[c].key)
       IN  IF i > 0
           THEN /\ cache' = LruHit(cache, i)
                /\ local' = [local EXCEPT ![c].transformer = cache[i].handle]
                /\ trace' = [trace EXCEPT ![c].lookups = @ + 1,
                                          ![c].hits = @ + 1]
                /\ pc' = [pc EXCEPT ![c] = "dispatch"]
                /\ recency' = Touch(recency, local[c].key, cache[i].handle)
           ELSE /\ cache' = cache
                /\ local' = local
                /\ trace' = [trace EXCEPT ![c].lookups = @ + 1]
                /\ pc' = [pc EXCEPT ![c] = "build"]
                /\ recency' = recency
    /\ UNCHANGED <<nextHandle, args, futures, results, outcome, started,
                   scanPos>>

(* line 65, a miss: Transformer.from_crs runs outside the cache's lock; an *)
(* exception leaves the cache alone and leaves reproject_column            *)
CacheBuild(c) ==
    /\ pc[c] = "build"
    /\ LET t == from_crs(nextHandle, local[c].existing_crs, args[c].to_crs)
       IN  IF IsError(t)
           THEN /\ pc' = [pc EXCEPT ![c] = "raised"]
                /\ outcome' = [outcome EXCEPT ![c] = Raised(t)]
                /\ UNCHANGED <<local, nextHandle, trace>>
           ELSE /\ pc' = [pc EXCEPT ![c] = "insert"]
                /\ local' = [local EXCEPT ![c].transformer = t]
                /\ nextHandle' = nextHandle + 1
                /\ trace' = [trace EXCEPT ![c].builds = @ + 1]
                /\ UNCHANGED outcome
    /\ UNCHANGED <<cache, args, futures, results, started, scanPos, recency>>

(* line 65, a miss: the wrapper stores the result it is about to return *)
CacheInsert(c) ==
    /\ pc[c] = "insert"
    /\ cache' = LruInsert(cache, local[c].key, local[c].transformer)
    /\ recency' = IF local[c].key \in CacheKeys(cache) THEN recency
                  ELSE Touch(recency, local[c].key, local[c].transformer)
    /\ pc' = [pc EXCEPT ![c] = "dispatch"]
    /\ UNCHANGED <<nextHandle, args, local, futures, results, outcome, trace,
                   started, scanPos>>

-----------------------------------------------------------------------------
(* _reproject_column, lines 93-112: choose func by extension name, create  *)
(* the pool, and let executor.map submit one future per chunk              *)
Dispatch(c) ==
    /\ pc[c] = "dispatch"
    /\ LET nest == SelectFunc(args[c].field.metadata[ExtNameKey].text)
           max_workers == args[c].max_workers
       IN  IF nest < 0
           THEN /\ pc' = [pc EXCEPT ![c] = "raised"]
                /\ outcome' = [outcome EXCEPT ![c] = Raised(
                       Error("ValueError", "Unexpected extension type name"))]
                /\ UNCHANGED <<futures, trace>>
           ELSE IF max_workers.kind = "int" /\ max_workers.value <= 0
           THEN /\ pc' = [pc EXCEPT ![c] = "raised"]
                /\ outcome' = [outcome EXCEPT ![c] = Raised(
                       Error("ValueError",
                             "max_workers must be greater than 0"))]
                /\ UNCHANGED <<futures, trace>>
           ELSE /\ pc' = [pc EXCEPT ![c] = "collect"]
                /\ futures' = [futures EXCEPT ![c] =
                       [i \in DOMAIN args[c].column |-> Future("pending", None)]]
                /\ trace' = [trace EXCEPT ![c].submits = Len(args[c].column)]
                /\ UNCHANGED outcome
    /\ UNCHANGED <<cache, nextHandle, args, local, results, started, scanPos,
                   recency>>

(* a pool thread takes the oldest work item that was not cancelled; the    *)
(* pool never runs more than max_workers threads                           *)
WorkerStart(c) ==
    /\ pc[c] \in {"collect", "shutdown"}
    /\ NumInState(futures[c], "pending") > 0
    /\ NumInState(futures[c], "running") < WorkerLimit(args[c].max_workers)
    /\ futures' = [futures EXCEPT
                      ![c][NextPending(futures[c])] = Future("running", None)]
    /\ UNCHANGED <<cache, nextHandle, pc, args, local, results, outcome, trace,
                   started, scanPos, recency>>

(* func(chunk) ends: the future holds the new chunk or the exception *)
WorkerFinish(c, i) ==
    /\ i \in DOMAIN futures[c]
    /\ futures[c][i].state = "running"
    /\ \E env \in BOOLEAN :
         LET nest == SelectFunc(args[c].field.metadata[ExtNameKey].text)
             value == ApplyFunc(nest, ChunkOf(args[c].column, i),
                                local[c].transformer, env)
         IN  /\ futures' = [futures EXCEPT ![c][i] =
                    Future(IF IsError(value) THEN "failed" ELSE "done", value)]
             /\ args' = [args EXCEPT ![c].column[i] =
                    BufferAfterTransform(@, value)]
    /\ trace' = [trace EXCEPT
                    ![c].transforms =
                        IF InvokesTransform(args[c].column[i]) THEN @ + 1 ELSE @,
                    ![c].order = Append(@, i)]
    /\ UNCHANGED <<cache, nextHandle, pc, local, results, outcome, started,
                   scanPos, recency>>

(* list(executor.map(..)): the caller takes the results in submission      *)
(* order; an exception cancels what is still pending and leaves the loop   *)
Collect(c) ==
    /\ pc[c] = "collect"
    /\ LET n == Len(results[c]) + 1
           k == ResultSlot(futures[c], n)
       IN  /\ futures[c][k].state \in {"done", "failed"}
           /\ IF Failed(futures[c][k])
              THEN /\ futures' = [futures EXCEPT ![c] = CancelPending(@)]
                   /\ outcome' = [outcome EXCEPT ![c] =
                                     Raised(futures[c][k].value)]
                   /\ results' = results
                   /\ pc' = [pc EXCEPT ![c] = "shutdown"]
              ELSE /\ futures' = futures
                   /\ outcome' = outcome
                   /\ results' = [results EXCEPT ![c] =
                                     Append(@, futures[c][k].value)]
                   /\ pc' = [pc EXCEPT ![c] =
                                IF Exhausted(futures[c], n) THEN "shutdown"
                                ELSE "collect"]
    /\ UNCHANGED <<cache, nextHandle, args, local, trace, started, scanPos,
                   recency>>

(* leaving the with block: executor.shutdown(wait=True) joins the pool     *)
(* threads; then the exception propagates, or lines 80-83 build the field  *)
(* and return                                                              *)
Shutdown(c) ==
    /\ pc[c] = "shutdown"
    /\ Joined(futures[c])
    /\ IF outcome[c].kind = "raised"
       THEN /\ pc' = [pc EXCEPT ![c] = "raised"]
            /\ outcome' = outcome
       ELSE /\ pc' = [pc EXCEPT ![c] = "returned"]
            /\ outcome' = [outcome EXCEPT ![c] =
                   Returned(NewField(args[c].field, args[c].to_crs, results[c]),
                            results[c])]
    /\ UNCHANGED <<cache, nextHandle, args, local, futures, results, trace,
                   started, scanPos, recency>>

(* the steps of a running call *)
Step(c) ==
    \/ CacheLookup(c)
    \/ CacheBuild(c)
    \/ CacheInsert(c)
    \/ Dispatch(c)
    \/ WorkerStart(c)
    \/ \E i \in 1..(MaxChunks + 1) : WorkerFinish(c, i)
    \/ Collect(c)
    \/ Shutdown(c)

Next == \E c \in Callers : Call(c) \/ Step(c)

Spec == Init /\ [][Next]_vars

(* the caller's thread and the pool's threads are scheduled, and every     *)
(* func(chunk) that was started ends                                       *)
SpecLive == Spec /\ \A c \in Callers : WF_vars(Step(c))

-----------------------------------------------------------------------------
(* Two threads calling reproject_column at the same time, each several     *)
(* times, on point columns over the same few CRS pairs                     *)
CallConcurrent(c) ==
    /\ pc[c] = "idle" \/ Finished(c)
    /\ started[c] < MaxCallsPerThread
    /\ \E from \in SpecCRS, to_crs \in {CRSStr("code", i) : i \in SpecCRS} :
         reproject_column(c,
             MakeField(POINT, CRSStr("code", from), FALSE, ColumnOf(0, 2, 1)),
             ColumnOf(0, 2, 1), to_crs, None)
    /\ started' = [started EXCEPT ![c] = @ + 1]
    /\ UNCHANGED scanPos

NextConcurrent == \E c \in Callers : CallConcurrent(c) \/ Step(c)

SpecConcurrent == Init /\ [][NextConcurrent]_vars

-----------------------------------------------------------------------------
(* One thread reprojecting between many CRS pairs: pair 1 first and again  *)
(* at any time, the other pairs once each, in order                        *)

NumScanKeys == NumScanCRS * (NumScanCRS - 1)

(* the i-th ordered pair <<from, to>> of distinct CRS of 1..NumScanCRS *)
ScanPair(i) ==
    LET from == ((i - 1) \div (NumScanCRS - 1)) + 1
        d == ((i - 1) % (NumScanCRS - 1)) + 1
    IN  <<from, IF d >= from THEN d + 1 ELSE d>>

ScanKey(i) ==
    MakeKey(CRSObj(ScanPair(i)[1]), CRSStr("code", ScanPair(i)[2]), TRUE)

CallPair(c, i) ==
    reproject_column(c,
        MakeField(POINT, CRSStr("code", ScanPair(i)[1]), FALSE,
                  ColumnOf(0, 2, 1)),
        ColumnOf(0, 2, 1), CRSStr("code", ScanPair(i)[2]), None)

CallProbe(c) ==
    /\ c = "t1"
    /\ pc[c] = "idle" \/ Finished(c)
    /\ CallPair(c, 1)
    /\ UNCHANGED <<scanPos, started>>

CallScan(c) ==
    /\ c = "t1"
    /\ pc[c] = "idle" \/ Finished(c)
    /\ recency # <<>>
    /\ scanPos <= NumScanKeys
    /\ CallPair(c, scanPos)
    /\ scanPos' = scanPos + 1
    /\ UNCHANGED started

NextScan == \E c \in Callers : CallProbe(c) \/ CallScan(c) \/ Step(c)

SpecScan == Init /\ [][NextScan]_vars

-----------------------------------------------------------------------------
(* The same geometries in chunks cut at different places: t1 reprojects a  *)
(* column of three geometries, then t2 the same geometries cut otherwise   *)

(* the whole column as one array: three geometries, the second one empty   *)
(* where the encoding has a level to be empty at                           *)
Whole(depth, list_size) ==
    LET shape ==
            CASE depth = 0 -> [offsets |-> <<>>, n |-> 3]
              [] depth = 1 -> [offsets |-> << <<0, 2, 2, 3>> >>, n |-> 3]
              [] depth = 2 ->
                    [offsets |-> << <<0, 2, 2, 3>>, <<0, 2, 3, 4>> >>, n |-> 4]
              [] OTHER ->
                    [offsets |-> << <<0, 1, 1, 3>>, <<0, 2, 2, 3>>,
                                    <<0, 1, 2, 4>> >>, n |-> 4]
    IN  Arr(shape.offsets, list_size, [j \in 1..(shape.n * list_size) |-> j])

(* the chunk holding geometries lo+1..hi of `arr': at every level the     *)
(* offsets of its range, counted from the start of the chunk               *)
SliceArr(arr, lo, hi) ==
    LET n == Len(arr.offsets)
        r1 == IF n >= 1 THEN <<arr.offsets[1][lo + 1], arr.offsets[1][hi + 1]>>
              ELSE <<lo, hi>>
        r2 == IF n >= 2 THEN <<arr.offsets[2][r1[1] + 1], arr.offsets[2][r1[2] + 1]>>
              ELSE r1
        r3 == IF n >= 3 THEN <<arr.offsets[3][r2[1] + 1], arr.offsets[3][r2[2] + 1]>>
              ELSE r2
        ranges == << <<lo, hi>>, r1, r2 >>
        off(l) == [j \in 1..(ranges[l][2] - ranges[l][1] + 1) |->
                      arr.offsets[l][ranges[l][1] + j]
                          - arr.offsets[l][ranges[l][1] + 1]]
    IN  Arr([l \in 1..n |-> off(l)], arr.dim,
            SubSeq(arr.coords, r3[1] * arr.dim + 1, r3[2] * arr.dim))

(* where a column of three geometries is cut into chunks *)
Cuts == {<<0, 3>>, <<0, 1, 3>>, <<0, 2, 3>>, <<0, 0, 3>>, <<0, 1, 2, 3>>}

SplitColumn(arr, cuts) ==
    [k \in 1..(Len(cuts) - 1) |-> SliceArr(arr, cuts[k], cuts[k + 1])]

CallRechunk(c) ==
    /\ pc[c] = "idle"
    /\ c = "t2" => pc["t1"] = "returned"
    /\ \E name \in SupportedNames, list_size \in {2, 3}, cuts \in Cuts,
          max_workers \in {None, IntArg(1)} :
         /\ c = "t2" =>
               /\ name = args["t1"].field.metadata[ExtNameKey].text
               /\ list_size = args["t1"].column[1].dim
         /\ LET column == SplitColumn(Whole(SelectFunc(name), list_size), cuts)
            IN  reproject_column(c,
                    MakeField(name, CRSStr("code", 1), FALSE, column),
                    column, CRSStr("code", 2), max_workers)
    /\ started' = [started EXCEPT ![c] = @ + 1]
    /\ UNCHANGED scanPos

NextRechunk == \E c \in Callers : CallRechunk(c) \/ Step(c)

SpecRechunk == Init /\ [][NextRechunk]_vars

-----------------------------------------------------------------------------
(* The routines _map_coords_nest_0.._map_coords_nest_3 on their own: one   *)
(* array of the depth of the routine, and a callback that transforms the   *)
(* leaf or returns it unchanged                                            *)

(* three geometries, one child for each parent at every level but `level', *)
(* where the second parent has no child                                    *)
EmptyAt(depth, level, list_size) ==
    Arr([l \in 1..depth |->
            IF l = level THEN <<0, 2, 2, 3>> ELSE <<0, 1, 2, 3>>],
        list_size, [j \in 1..(3 * list_size) |-> j])

CodecArrays(depth, list_size) ==
    {Chunk(depth, list_size, k) : k \in 1..MaxChunks}
        \cup {Whole(depth, list_size)}
        \cup {SliceArr(Whole(depth, list_size), lo, hi) :
                   lo \in 0..1, hi \in 1..2}
        \cup {EmptyAt(depth, level, list_size) : level \in 1..depth}

CodecArgs(arr, depth, transformer) ==
    [arr |-> arr, depth |-> depth, transformer |-> transformer]

(* func(arr) for the routine of depth `depth': decompose, callback,        *)
(* recompose                                                               *)
MapCoords(c) ==
    /\ pc[c] = "idle"
    /\ \E depth \in 0..3, list_size \in ListSizes,
          transformer \in {NoopTransformer, Transformer(1, 1, 2)} :
         \E arr \in CodecArrays(depth, list_size) :
            LET value == ApplyFunc(depth, arr, transformer, TRUE)
            IN  /\ args' = [args EXCEPT ![c] =
                               CodecArgs(arr, depth, transformer)]
                /\ IF IsError(value)
                   THEN /\ pc' = [pc EXCEPT ![c] = "raised"]
                        /\ outcome' = [outcome EXCEPT ![c] = Raised(value)]
                   ELSE /\ pc' = [pc EXCEPT ![c] = "returned"]
                        /\ outcome' = [outcome EXCEPT ![c] =
                                          ReturnedValue(value)]
    /\ UNCHANGED <<cache, nextHandle, local, futures, results, trace, started,
                   scanPos, recency>>

NextCodec == \E c \in Callers : MapCoords(c)

SpecCodec == Init /\ [][NextCodec]_vars

-----------------------------------------------------------------------------
(* read_file (python/geopolars/io/file.py) and GeoDataFrame.__init__       *)
(* (python/geopolars/internals/geodataframe.py).  A table is its fields:   *)
(* for every column name the field's metadata.                             *)

NoMetadata == <<>>

Table(fields) == [kind |-> "Table", fields |-> fields]

column_names(table) == DOMAIN table.fields

(* a polars DataFrame holds columns and no field metadata *)
DataFrame(columns) == [kind |-> "DataFrame", columns |-> columns]

GeoDataFrame(columns, column_types, column_metadata) ==
    [kind |-> "GeoDataFrame", columns |-> columns,
     column_types |-> column_types, column_metadata |-> column_metadata]

(* pl.from_arrow(table) *)
pl_from_arrow(table) == DataFrame(column_names(table))

(* Table.from_arrow(data): a table as it is; of a polars DataFrame, or of   *)
(* the polars part of a GeoDataFrame, fields without metadata              *)
Table_from_arrow(data) ==
    IF data.kind = "Table" THEN data
    ELSE Table([n \in data.columns |-> NoMetadata])

(* lines 138-169: the GeoArrow columns of a table, or None, None *)
_extract_geoarrow_metadata(table) ==
    LET geo == {n \in column_names(table) :
                  /\ ExtNameKey \in DOMAIN table.fields[n]
                  /\ table.fields[n][ExtNameKey].text \in GeoArrowExtensionName}
        column_types == [n \in geo |-> table.fields[n][ExtNameKey].text]
        column_metadata ==
            [n \in geo |->
                IF ExtMetaKey \notin DOMAIN table.fields[n] THEN NoMetadata
                ELSE JsonLoads(table.fields[n][ExtMetaKey])]
    IN  IF geo # {} THEN <<column_types, column_metadata>>
        ELSE <<None, None>>

(* lines 172-181 *)
_remove_field_metadata(table) ==
    Table([n \in column_names(table) |-> NoMetadata])

(* GeoDataFrame.__init__(data, ga_col_types=.., ga_col_meta=..), lines     *)
(* 45-67; has_stream is hasattr(data, "__arrow_c_stream__")                *)
GeoDataFrame_init(data, ga_col_types, ga_col_meta, has_stream) ==
    LET extracted == IF has_stream
                     THEN _extract_geoarrow_metadata(Table_from_arrow(data))
                     ELSE <<None, None>>
        column_types == IF ga_col_types # None THEN ga_col_types
                        ELSE extracted[1]
        column_metadata == IF ga_col_meta # None THEN ga_col_meta
                           ELSE IF extracted[2] # None THEN extracted[2]
                           ELSE NoMetadata
    IN  IF column_types = None
        THEN Error("ValueError",
                   "Must pass ga_col_types for non-geoarrow input.")
        ELSE GeoDataFrame(
                 IF has_stream
                 THEN column_names(_remove_field_metadata(Table_from_arrow(data)))
                 ELSE data.columns,
                 column_types, column_metadata)

(* what pyogrio's read_arrow hands back: the layer's geometry name, empty  *)
(* when the layer has none, and a table whose geometry column, when read,  *)
(* is WKB with or without an extension name on its field                   *)
GeometryNames == {Text(""), Text("geom"), Text("wkb_geometry")}

GeometryFields ==
    {NoMetadata} \cup {[k \in {ExtNameKey} |-> Text(n)] : n \in {WKB, OGC_WKB}}

(* the tables of a layer with the attribute column "name": the geometry    *)
(* column, when the table has one, is called `geometry_column'            *)
Tables(geometry_column) ==
    {Table([n \in {"name"} |-> NoMetadata])}
        \cup {Table([n \in {"name", geometry_column} |->
                        IF n = geometry_column THEN g ELSE NoMetadata]) :
                 g \in GeometryFields}

ReturnedFrame(frame) == [kind |-> "returned", value |-> frame]

(* line 112: metadata["geometry_name"] or "wkb_geometry" *)
GeometryNameOr(metadata) ==
    IF metadata.geometry_name = Text("") THEN "wkb_geometry"
    ELSE metadata.geometry_name.text

(* read_file, lines 93-108: _read_arrow returns the metadata and the table *)
read_file(c) ==
    /\ pc[c] = "idle"
    /\ \E name \in GeometryNames :
         \E table \in Tables("geom") \cup Tables("wkb_geometry") :
            /\ args' = [args EXCEPT ![c] = [path |-> "layer"]]
            /\ local' = [local EXCEPT ![c] =
                            [metadata |-> [geometry_name |-> name],
                             table |-> table]]
    /\ pc' = [pc EXCEPT ![c] = "from_arrow"]
    /\ UNCHANGED <<cache, nextHandle, futures, results, outcome, trace,
                   started, scanPos, recency>>

(* read_file, lines 112-117: the polars frame, returned as it is when the  *)
(* table has no column of the geometry name                                *)
ReadFileFrame(c) ==
    /\ pc[c] = "from_arrow"
    /\ LET geometry_name == GeometryNameOr(local[c].metadata)
           df == pl_from_arrow(local[c].table)
       IN  IF geometry_name \notin column_names(local[c].table)
           THEN /\ pc' = [pc EXCEPT ![c] = "returned"]
                /\ outcome' = [outcome EXCEPT ![c] = ReturnedFrame(df)]
           ELSE /\ pc' = [pc EXCEPT ![c] = "wrap"]
                /\ outcome' = outcome
    /\ UNCHANGED <<cache, nextHandle, args, local, futures, results, trace,
                   started, scanPos, recency>>

(* read_file, line 119: GeoDataFrame(df); polars has __arrow_c_stream__ in *)
(* some of its releases                                                    *)
ReadFileWrap(c) ==
    /\ pc[c] = "wrap"
    /\ \E has_stream \in BOOLEAN :
         LET gdf == GeoDataFrame_init(pl_from_arrow(local[c].table),
                                      None, None, has_stream)
         IN  IF IsError(gdf)
             THEN /\ pc' = [pc EXCEPT ![c] = "raised"]
                  /\ outcome' = [outcome EXCEPT ![c] = Raised(gdf)]
             ELSE /\ pc' = [pc EXCEPT ![c] = "returned"]
                  /\ outcome' = [outcome EXCEPT ![c] = ReturnedFrame(gdf)]
    /\ UNCHANGED <<cache, nextHandle, args, local, futures, results, trace,
                   started, scanPos, recency>>

NextReadFile ==
    \E c \in Callers : read_file(c) \/ ReadFileFrame(c) \/ ReadFileWrap(c)

SpecReadFile == Init /\ [][NextReadFile]_vars

-----------------------------------------------------------------------------
(* GeoSeries.to_geopandas and GeoSeries._from_geopandas                    *)
(* (python/geopolars/internals/geoseries.py).  The elements of a GeoSeries *)
(* are WKB values or nulls.  A WKB value is the geometry it encodes, the   *)
(* byte order it is written in and whether it carries an SRID (EWKB).      *)

Wkb(byte_order, srid, geom) ==
    [kind |-> "wkb", byte_order |-> byte_order, srid |-> srid, geom |-> geom]

Geometry(geom, srid) == [kind |-> "geometry", geom |-> geom, srid |-> srid]

WkbValues ==
    {Wkb(o, srid, g) : o \in {"little", "big"}, srid \in BOOLEAN, g \in {1, 2}}

(* shapely.from_wkb of one value: the geometry, with the SRID of an EWKB *)
from_wkb(value) ==
    IF value = None THEN None ELSE Geometry(value.geom, value.srid)

(* mutant: the geometries are written in big-endian byte order *)
to_wkb_big_endian(geometry) ==
    IF geometry = None THEN None ELSE Wkb("big", FALSE, geometry.geom)

(* shapely.to_wkb of one geometry at geopandas' defaults: machine byte     *)
(* order (little-endian), no SRID                                          *)
to_wkb(geometry) ==
    IF geometry = None THEN None ELSE Wkb("little", FALSE, geometry.geom)

(* a polars Series of WKB values wrapped as GeoSeries (lines 28-31) *)
GeoSeries(name, values) ==
    [kind |-> "GeoSeries", name |-> name, values |-> values,
     dtype |-> IF \A i \in DOMAIN values : values[i] = None
               THEN "Null" ELSE "Binary"]

GeoPandasSeries(name, values) ==
    [kind |-> "geopandas.GeoSeries", name |-> name, values |-> values]

(* lines 60-67: the array of WKB values is parsed into a geopandas         *)
(* GeoSeries, which is given no name                                       *)
to_geopandas(self) ==
    LET pyarrow_array == self.values
        numpy_array == pyarrow_array
    IN  GeoPandasSeries(None,
            [i \in DOMAIN numpy_array |-> from_wkb(numpy_array[i])])

(* lines 43-47: geoseries.to_wkb() as an arrow array, named as the         *)
(* geopandas series or "geometry"                                          *)
_from_geopandas(geoseries) ==
    LET wkb_arrow_array ==
            [i \in DOMAIN geoseries.values |-> to_wkb(geoseries.values[i])]
    IN  GeoSeries(IF geoseries.name = None THEN "geometry" ELSE geoseries.name,
                  wkb_arrow_array)

SeriesNames == {"geometry", "geom"}

(* the series of up to MaxSeriesLen elements *)
SeriesValues ==
    UNION {[1..n -> WkbValues \cup {None}] : n \in 0..MaxSeriesLen}

(* s.to_geopandas() *)
ToGeopandas(c) ==
    /\ c = "t1"
    /\ pc[c] = "idle"
    /\ \E name \in SeriesNames, values \in SeriesValues :
         /\ args' = [args EXCEPT ![c] = [s |-> GeoSeries(name, values)]]
         /\ local' = [local EXCEPT ![c] =
                         [geoseries |-> to_geopandas(GeoSeries(name, values))]]
    /\ pc' = [pc EXCEPT ![c] = "geopandas"]
    /\ UNCHANGED <<cache, nextHandle, futures, results, outcome, trace,
                   started, scanPos, recency>>

(* GeoSeries._from_geopandas(..) of what to_geopandas returned *)
FromGeopandas(c) ==
    /\ pc[c] = "geopandas"
    /\ outcome' = [outcome EXCEPT ![c] =
                      ReturnedFrame(_from_geopandas(local[c].geoseries))]
    /\ pc' = [pc EXCEPT ![c] = "returned"]
    /\ UNCHANGED <<cache, nextHandle, args, local, futures, results, trace,
                   started, scanPos, recency>>

NextRoundTrip == \E c \in Callers : ToGeopandas(c) \/ FromGeopandas(c)

SpecRoundTrip == Init /\ [][NextRoundTrip]_vars

-----------------------------------------------------------------------------
(* GeoDataFrame (python/geopolars/internals/geodataframe.py): a frame is   *)
(* built from an Arrow table or from a polars frame and the types of its   *)
(* geometry columns, and then asked for a geometry column or exported      *)

(* a polars Series; what it holds is not looked at here *)
Series(name) == [kind |-> "Series", name |-> name, values |-> <<>>]

(* DataFrame.get_column(name) *)
get_column(self, name) ==
    IF name \in self.columns THEN Series(name)
    ELSE Error("ColumnNotFoundError", name)

(* GeoSeries(s, ga_type=.., ga_meta=..) of geoseries.py, lines 28-31: for  *)
(* a polars Series the constructor takes the Series' data and returns; it  *)
(* does not read its keyword arguments                                     *)
GeoSeries_init(s, ga_type, ga_meta) == GeoSeries(s.name, s.values)

(* GeoDataFrame.geometry(name), lines 97-117 *)
geometry(self, name) ==
    LET registered == DOMAIN self.column_types
    IN  IF name = None /\ Cardinality(registered) = 0
        THEN Error("ValueError", "No geometry columns")
        ELSE IF name = None /\ Cardinality(registered) > 1
        THEN Error("ValueError",
                   "Must pass name when multiple geometry columns exist in table")
        ELSE LET column == IF name = None THEN CHOOSE n \in registered : TRUE
                           ELSE name.text
             IN  IF column \notin registered
                 THEN Error("ValueError", "name is not a geometry column")
                 ELSE LET s_ == get_column(self, column)
                          ga_type == self.column_types[column]
                          ga_meta == DictGet(self.column_metadata, column)
                      IN  IF IsError(s_) THEN s_
                          ELSE GeoSeries_init(s_, ga_type, ga_meta)

(* GeoDataFrame.__arrow_c_stream__, lines 72-95: the table that is         *)
(* exported                                                                *)
GeoDataFrame_arrow_c_stream(self) ==
    LET table == Table_from_arrow(self)
        new_fields ==
            [n \in column_names(table) |->
                IF n \notin DOMAIN self.column_types THEN table.fields[n]
                ELSE [k \in {ExtNameKey} \cup
                              (IF n \in DOMAIN self.column_metadata
                               THEN {ExtMetaKey} ELSE {}) |->
                         IF k = ExtNameKey THEN Text(self.column_types[n])
                         ELSE JsonDumps(self.column_metadata[n])]]
    IN  Table(new_fields)

(* the extension metadata a GeoArrow field may come with *)
ExtensionObjects ==
    {[k \in {"crs"} |-> Text("EPSG:4326")], [k \in {"edges"} |-> SphericalText]}

GeoArrowFields ==
    {[k \in {ExtNameKey} |-> Text(n)] : n \in {POINT, WKB}}
        \cup {[k \in {ExtNameKey, ExtMetaKey} |->
                  IF k = ExtNameKey THEN Text(n) ELSE text] :
                 n \in {POINT, WKB},
                 text \in {JsonDumps(o) : o \in ExtensionObjects}
                            \cup {JsonCompact(o) : o \in ExtensionObjects}}

(* fields that are not GeoArrow columns: no metadata, metadata of the      *)
(* application, another extension type                                     *)
OtherFields ==
    {NoMetadata, [k \in {"comment"} |-> Text("x")],
     [k \in {ExtNameKey} |-> Text("arrow.json")]}

(* tables with the column "n" and with or without the columns "geom" and   *)
(* "geom2"                                                                 *)
ArrowTables ==
    {Table([n \in {"n"} |-> o]) : o \in OtherFields}
        \cup {Table([n \in {"n", "geom"} |-> IF n = "n" THEN o ELSE g]) :
                 o \in OtherFields, g \in GeoArrowFields}
        \cup {Table([n \in {"n", "geom", "geom2"} |->
                        IF n = "n" THEN NoMetadata
                        ELSE IF n = "geom" THEN g
                        ELSE [k \in {ExtNameKey} |-> Text(POLYGON)]]) :
                 g \in GeoArrowFields}

(* what a caller may pass as ga_col_types with a polars frame of the       *)
(* columns "n" and "geom"                                                  *)
ColumnTypes ==
    {<<>>, [n \in {"geom"} |-> POINT], [n \in {"geom", "n"} |-> WKB],
     [n \in {"geom", "geom2"} |-> POINT]}

FrameArgs(data, name) == [data |-> data, name |-> name]

FrameLocal(table, frame) == [table |-> table, frame |-> frame]

(* GeoDataFrame(table) *)
FrameFromArrow(c) ==
    /\ pc[c] = "idle"
    /\ \E table \in ArrowTables :
         LET gdf == GeoDataFrame_init(table, None, None, TRUE)
         IN  /\ args' = [args EXCEPT ![c] = FrameArgs(table, None)]
             /\ IF IsError(gdf)
                THEN /\ pc' = [pc EXCEPT ![c] = "raised"]
                     /\ outcome' = [outcome EXCEPT ![c] = Raised(gdf)]
                     /\ local' = [local EXCEPT ![c] = FrameLocal(table, None)]
                ELSE /\ pc' = [pc EXCEPT ![c] = "frame"]
                     /\ outcome' = outcome
                     /\ local' = [local EXCEPT ![c] = FrameLocal(table, gdf)]
    /\ UNCHANGED <<cache, nextHandle, futures, results, trace, started,
                   scanPos, recency>>

(* GeoDataFrame(df, ga_col_types=.., ga_col_meta=..) of a polars frame *)
FrameFromData(c) ==
    /\ pc[c] = "idle"
    /\ \E ga_col_types \in ColumnTypes,
          ga_col_meta \in {None, [n \in {"geom"} |-> [k \in {"crs"} |->
                                                      Text("EPSG:4326")]]} :
         LET data == DataFrame({"n", "geom"})
             gdf == GeoDataFrame_init(data, ga_col_types, ga_col_meta, FALSE)
         IN  /\ args' = [args EXCEPT ![c] = FrameArgs(data, None)]
             /\ pc' = [pc EXCEPT ![c] = "frame"]
             /\ local' = [local EXCEPT ![c] = FrameLocal(None, gdf)]
    /\ UNCHANGED <<cache, nextHandle, futures, results, outcome, trace,
                   started, scanPos, recency>>

(* frame.geometry(name) *)
FrameGeometry(c) ==
    /\ pc[c] = "frame"
    /\ \E name \in {None} \cup {Text(n) : n \in {"geom", "geom2", "n", "z"}} :
         LET value == geometry(local[c].frame, name)
         IN  /\ args' = [args EXCEPT ![c].name = name]
             /\ IF IsError(value)
                THEN /\ pc' = [pc EXCEPT ![c] = "raised"]
                     /\ outcome' = [outcome EXCEPT ![c] = Raised(value)]
                ELSE /\ pc' = [pc EXCEPT ![c] = "returned"]
                     /\ outcome' = [outcome EXCEPT ![c] = ReturnedValue(value)]
    /\ UNCHANGED <<cache, nextHandle, local, futures, results, trace, started,
                   scanPos, recency>>

(* Table.from_arrow(frame): the frame's __arrow_c_stream__ *)
FrameExport(c) ==
    /\ pc[c] = "frame"
    /\ pc' = [pc EXCEPT ![c] = "exported"]
    /\ outcome' = [outcome EXCEPT ![c] =
                      ReturnedValue(GeoDataFrame_arrow_c_stream(local[c].frame))]
    /\ UNCHANGED <<cache, nextHandle, args, local, futures, results, trace,
                   started, scanPos, recency>>

NextFrame ==
    \E c \in Callers :
        FrameFromArrow(c) \/ FrameFromData(c) \/ FrameGeometry(c) \/ FrameExport(c)

SpecFrame == Init /\ [][NextFrame]_vars

-----------------------------------------------------------------------------
(* What a call was given, read off its arguments *)

(* the field carries a CRS: the extension-metadata key holds JSON with a  *)
(* non-null "crs" entry                                                    *)
FieldHasCRS(field) ==
    /\ ExtMetaKey \in DOMAIN field.metadata
    /\ field.metadata[ExtMetaKey].kind = "json"
    /\ "crs" \in DOMAIN field.metadata[ExtMetaKey].obj
    /\ field.metadata[ExtMetaKey].obj["crs"].kind = "str"

SourceId(c) == args[c].field.metadata[ExtMetaKey].obj["crs"].id

Called(c) == pc[c] # "idle"

(* the source CRS is the destination CRS *)
IdentityCall(c) ==
    /\ Called(c)
    /\ FieldHasCRS(args[c].field)
    /\ args[c].to_crs # BogusCRS
    /\ SourceId(c) = args[c].to_crs.id

(* the call returned on the path that transforms *)
TransformedReturn(c) ==
    /\ pc[c] = "returned"
    /\ FieldHasCRS(args[c].field)
    /\ SourceId(c) # args[c].to_crs.id

FailedChunks(c) == {i \in DOMAIN futures[c] : futures[c][i].state = "failed"}

-----------------------------------------------------------------------------
(* C1: on the path that transforms, the returned column has the chunk      *)
(* count of the input, every chunk has the logical length of its input     *)
(* chunk and, at every nesting level, the input chunk's offset array; the  *)
(* tuple width and the number of coordinates are kept, so a chunk differs  *)
(* from its input in its coordinate values only.                           *)
C1_ShapePreserved ==
    \A c \in Callers :
        TransformedReturn(c) =>
            LET in == args[c].column
                out == outcome[c].column
            IN  /\ Len(out) = Len(in)
                /\ \A i \in DOMAIN in :
                     /\ ArrayLen(out[i]) = ArrayLen(in[i])
                     /\ Len(out[i].offsets) = Len(in[i].offsets)
                     /\ \A l \in DOMAIN in[i].offsets :
                            out[i].offsets[l] = in[i].offsets[l]
                     /\ Len(out[i].coords) = Len(in[i].coords)
                     /\ [out[i] EXCEPT !.coords = in[i].coords] = in[i]

(* a multipolygon column of two chunks, with an empty polygon, came back *)
(* with other coordinates                                                  *)
C1_Witness ==
    \E c \in Callers :
        /\ TransformedReturn(c)
        /\ args[c].field.metadata[ExtNameKey].text = MULTIPOLYGON
        /\ Len(args[c].column) = 2
        /\ args[c].column[1].offsets[2] = <<0, 1, 1>>
        /\ outcome[c].column[1].coords # args[c].column[1].coords
        /\ outcome[c].column[2].coords # args[c].column[2].coords

(* C2: when the resolved source CRS equals the destination CRS, the call   *)
(* returns the field and the column it was given, and never looks up or    *)
(* fills the cache, submits a chunk or invokes a transformer.              *)
C2_IdentityFastPath ==
    \A c \in Callers :
        IdentityCall(c) =>
            /\ pc[c] = "returned"
            /\ outcome[c] = Returned(args[c].field, args[c].column)
            /\ trace[c] = NoTrace
            /\ futures[c] = <<>>
            /\ cache = <<>>
            /\ nextHandle = 1

(* an identity call whose CRS texts differ: PROJJSON in the field, an      *)
(* authority code as destination                                           *)
C2_Witness ==
    \E c \in Callers :
        /\ IdentityCall(c)
        /\ pc[c] = "returned"
        /\ args[c].field.metadata[ExtMetaKey].obj["crs"].form = "json"
        /\ args[c].to_crs.form = "code"
        /\ Len(args[c].column) = 2

(* C3: output chunk i is the transform of input chunk i, whatever the      *)
(* number of chunks, max_workers and the order in which the workers ended. *)
C3_ChunkOrder ==
    \A c \in Callers :
        TransformedReturn(c) =>
            /\ Len(outcome[c].column) = Len(args[c].column)
            /\ \A i \in DOMAIN args[c].column :
                 outcome[c].column[i] =
                     ApplyFunc(
                         SelectFunc(args[c].field.metadata[ExtNameKey].text),
                         args[c].column[i], local[c].transformer, TRUE)

(* the call returned although the second chunk was finished first *)
C3_Witness ==
    \E c \in Callers :
        /\ TransformedReturn(c)
        /\ Len(args[c].column) = 2
        /\ trace[c].order = <<2, 1>>
        /\ outcome[c].column[1] # outcome[c].column[2]

(* C4: a call one of whose chunk transforms failed ends by raising the     *)
(* error of a failed chunk (the first failed chunk in chunk order); it     *)
(* never returns, and no failed chunk's error is ever among the results    *)
(* collected for the caller.                                               *)
C4_AllOrNothing ==
    \A c \in Callers :
        /\ \A i \in DOMAIN results[c] : results[c][i].kind = "array"
        /\ FailedChunks(c) # {} =>
             /\ outcome[c].kind # "returned"
             /\ pc[c] # "returned"
             /\ Finished(c) =>
                  /\ pc[c] = "raised"
                  /\ outcome[c] = Raised(
                        futures[c][CHOOSE i \in FailedChunks(c) :
                            \A j \in FailedChunks(c) : i <= j].value)

(* the first chunk was transformed and collected, the second failed, and   *)
(* the call raised                                                         *)
C4_Witness ==
    \E c \in Callers :
        /\ pc[c] = "raised"
        /\ Len(futures[c]) = 2
        /\ futures[c][1].state = "done"
        /\ futures[c][2].state = "failed"
        /\ Len(results[c]) = 1
        /\ outcome[c].error.type = "ProjError"

(* C5: a call on a field without CRS (no extension-metadata key, an empty  *)
(* value, JSON without "crs" or with a null "crs") raises the missing-CRS  *)
(* error before any cache lookup, transformer construction or chunk        *)
(* submission; no CRS is assumed in its place.                             *)
C5_MissingCRS ==
    \A c \in Callers :
        (Called(c) /\ ~FieldHasCRS(args[c].field)) =>
            /\ pc[c] = "raised"
            /\ outcome[c] = Raised(Error("ValueError",
                                "No CRS found on source geometry column."))
            /\ trace[c] = NoTrace
            /\ futures[c] = <<>>
            /\ results[c] = <<>>
            /\ local[c].transformer = NoTransformer
            /\ cache = <<>>
            /\ nextHandle = 1

(* a call on a field whose extension metadata is JSON with a null crs *)
C5_Witness ==
    \E c \in Callers :
        /\ pc[c] = "raised"
        /\ ExtMetaKey \in DOMAIN args[c].field.metadata
        /\ args[c].field.metadata[ExtMetaKey].kind = "json"
        /\ "crs" \in DOMAIN args[c].field.metadata[ExtMetaKey].obj
        /\ args[c].field.metadata[ExtMetaKey].obj["crs"].kind = "null"
        /\ args[c].to_crs = CRSStr("code", 1)

(* C6: on the path that transforms, every field-level metadata key other   *)
(* than the two extension keys, and every key of the extension metadata    *)
(* other than "crs", is in the returned field with the value it had.       *)
C6_OtherMetadataKept ==
    \A c \in Callers :
        TransformedReturn(c) =>
            LET in == args[c].field.metadata
                out == outcome[c].field.metadata
            IN  /\ \A k \in DOMAIN in \ {ExtNameKey, ExtMetaKey} :
                     k \in DOMAIN out /\ out[k] = in[k]
                /\ \A k \in DOMAIN in[ExtMetaKey].obj \ {"crs"} :
                     /\ k \in DOMAIN out[ExtMetaKey].obj
                     /\ out[ExtMetaKey].obj[k] = in[ExtMetaKey].obj[k]

(* C7: on the path that transforms, the returned field has the extension   *)
(* type name of the input field and its extension metadata's "crs" entry   *)
(* is the serialized destination CRS, which is not the source CRS.         *)
C7_FieldRewritten ==
    \A c \in Callers :
        TransformedReturn(c) =>
            LET in == args[c].field.metadata
                out == outcome[c].field.metadata
            IN  /\ out[ExtNameKey] = in[ExtNameKey]
                /\ ExtMetaKey \in DOMAIN out
                /\ out[ExtMetaKey].kind = "json"
                /\ "crs" \in DOMAIN out[ExtMetaKey].obj
                /\ out[ExtMetaKey].obj["crs"] = CRSStr("json", args[c].to_crs.id)
                /\ out[ExtMetaKey].obj["crs"].id # SourceId(c)

(* a linestring column given a CRS object as destination came back *)
C7_Witness ==
    \E c \in Callers :
        /\ TransformedReturn(c)
        /\ args[c].field.metadata[ExtNameKey].text = LINESTRING
        /\ args[c].to_crs = CRSObj(2)
        /\ args[c].field.metadata[ExtMetaKey].obj["crs"] = CRSStr("code", 1)
        /\ outcome[c].field.metadata[ExtMetaKey].obj["crs"] = CRSStr("json", 2)

-----------------------------------------------------------------------------
(* What the cache was asked *)

(* the call holds the transformer line 65 gave it *)
HoldsTransformer(c) == local[c].transformer.kind = "transformer"

(* the handle was constructed for the call's source and destination CRS *)
BuiltForCall(c) ==
    /\ FieldHasCRS(args[c].field)
    /\ local[c].transformer.src = SourceId(c)
    /\ local[c].transformer.dst = args[c].to_crs.id

ServedKeys(n) == {recency[i].key : i \in 1..(IF n < Len(recency) THEN n ELSE Len(recency))}

(* C8 as stated: a key that is in the cache is in it in every later state. *)
C8_NeverInvalidated ==
    [][\A k \in CacheKeys(cache) : k \in CacheKeys(cache')]_vars

(* C8 as amended: the cache is bounded at 128 entries and drops the least  *)
(* recently used one; a key is in the cache as long as fewer than 128      *)
(* other distinct keys were served (hit, or stored after a miss) since it  *)
(* was last served, and no longer.                                         *)
C8_KeptWhileRecentlyUsed ==
    /\ CacheKeys(cache) = ServedKeys(LruMaxSize)
    /\ Len(cache) <= LruMaxSize

(* more than 128 keys were served; pair 1, served again in between, is     *)
(* still cached although pair 2, served after it at first, was dropped     *)
C8_Witness ==
    /\ Len(recency) > LruMaxSize
    /\ Len(cache) = LruMaxSize
    /\ ScanKey(1) \in CacheKeys(cache)
    /\ ScanKey(2) \notin CacheKeys(cache)

(* C9: the cache memoizes on the exact key.  A request that follows a      *)
(* served request for the same key gets the handle that request got,       *)
(* without a construction; a request for a key never served is a miss;     *)
(* every call holds a handle constructed for its own source and            *)
(* destination, and the handles served for different keys are different    *)
(* constructions.                                                          *)
C9_Memoization ==
    /\ [](\A c \in Callers : HoldsTransformer(c) => BuiltForCall(c))
    /\ [](Cardinality({recency[i].handle.id : i \in DOMAIN recency})
            = Len(recency))
    /\ [][\A c \in Callers :
            (pc[c] = "lookup" /\ pc'[c] # "lookup") =>
                IF recency # <<>> /\ recency[1].key = local[c].key
                THEN /\ pc'[c] = "dispatch"
                     /\ local'[c].transformer = recency[1].handle
                     /\ nextHandle' = nextHandle
                ELSE IF local[c].key \notin ServedKeys(Len(recency))
                THEN pc'[c] = "build"
                ELSE TRUE]_vars

(* pair 1 was requested twice in a row: the second request was a hit that  *)
(* returned the first request's handle, the only construction so far       *)
C9_Witness ==
    /\ pc["t1"] = "returned"
    /\ trace["t1"].hits = 1
    /\ trace["t1"].builds = 0
    /\ local["t1"].key = ScanKey(1)
    /\ local["t1"].transformer = Transformer(1, 1, 2)
    /\ nextHandle = 2
    /\ Len(recency) = 1

(* C10: under every interleaving of two callers, every call that passed    *)
(* line 65 holds a transformer constructed for its own source and          *)
(* destination, the cache holds at most one entry per key, every entry     *)
(* holds a transformer constructed for its key, and no served key is       *)
(* missing from the cache.                                                 *)
C10_ConcurrentCache ==
    /\ \A c \in Callers :
         pc[c] \in {"dispatch", "collect", "shutdown"} =>
            HoldsTransformer(c) /\ BuiltForCall(c)
    /\ \A c \in Callers : HoldsTransformer(c) => BuiltForCall(c)
    /\ \A i, j \in DOMAIN cache : cache[i].key = cache[j].key => i = j
    /\ \A i \in DOMAIN cache :
         /\ cache[i].handle.kind = "transformer"
         /\ cache[i].handle.src = cache[i].key[1].id
         /\ cache[i].handle.dst = cache[i].key[2].id
    /\ CacheKeys(cache) = ServedKeys(Len(recency))

(* both callers missed on the same key and each constructed a transformer; *)
(* both returned, the cache holds one entry for the key, and another key   *)
(* served meanwhile is still cached                                        *)
C10_Witness ==
    /\ pc["t1"] = "returned"
    /\ pc["t2"] = "returned"
    /\ local["t1"].key = local["t2"].key
    /\ trace["t1"].builds = 1
    /\ trace["t2"].builds = 1
    /\ local["t1"].transformer # local["t2"].transformer
    /\ Cardinality({i \in DOMAIN cache : cache[i].key = local["t1"].key}) = 1
    /\ Len(cache) = 2

-----------------------------------------------------------------------------
(* The dispatcher and the coordinate transform *)

ExtensionName(c) == args[c].field.metadata[ExtNameKey].text

UnsupportedError == Error("ValueError", "Unexpected extension type name")

ListSizeError == Error("ValueError", "Unexpected list size")

(* the futures whose func(chunk) has ended *)
Ended(c) == {i \in DOMAIN futures[c] : futures[c][i].state \in {"done", "failed"}}

C12_DispatchByDepth ==
    \A c \in Callers :
        \A i \in Ended(c) :
            LET name == ExtensionName(c)
                arr == args[c].column[i]
                t == local[c].transformer
                depth == CASE name = POINT -> 0
                           [] name \in {LINESTRING, MULTIPOINT} -> 1
                           [] name \in {POLYGON, MULTILINESTRING} -> 2
                           [] name = MULTIPOLYGON -> 3
                routine(env) ==
                    CASE depth = 0 -> _reproject_chunk_nest_0(arr, t, env)
                      [] depth = 1 -> _reproject_chunk_nest_1(arr, t, env)
                      [] depth = 2 -> _reproject_chunk_nest_2(arr, t, env)
                      [] depth = 3 -> _reproject_chunk_nest_3(arr, t, env)
                value == futures[c][i].value
            IN  /\ value \in {routine(TRUE), routine(FALSE)}
                /\ futures[c][i].state = "done" =>
                      /\ value = routine(TRUE)
                      /\ Len(value.offsets) = depth

(* the three chunks of a multipoint column were each rebuilt one level     *)
(* deep and those of no other depth                                        *)
C12_Witness ==
    \E c \in Callers :
        /\ Len(futures[c]) = 3
        /\ ExtensionName(c) = MULTIPOINT
        /\ \A i \in 1..3 :
             /\ futures[c][i].state = "done"
             /\ Len(futures[c][i].value.offsets) = 1

(* C13: when the leaf of the chunks is neither 2 nor 3 wide, every         *)
(* func(chunk) that ended raised the unexpected-list-size error without    *)
(* calling the transformer, nothing is collected, and the call does not    *)
(* return: it ends raising that error.                                     *)
C13_UnsupportedDimension ==
    \A c \in Callers :
        (futures[c] # <<>> /\ args[c].column[1].dim \notin {2, 3}) =>
            /\ trace[c].transforms = 0
            /\ results[c] = <<>>
            /\ pc[c] # "returned"
            /\ outcome[c].kind # "returned"
            /\ \A i \in Ended(c) : futures[c][i] = Future("failed", ListSizeError)
            /\ Finished(c) => outcome[c] = Raised(ListSizeError)

(* a polygon column of two chunks with leaves four wide: the call raised   *)
(* after the first chunk failed, and the second was never run              *)
C13_Witness ==
    \E c \in Callers :
        /\ pc[c] = "raised"
        /\ ExtensionName(c) = POLYGON
        /\ args[c].column[1].dim = 4
        /\ Len(futures[c]) = 2
        /\ futures[c][1] = Future("failed", ListSizeError)
        /\ futures[c][2].state = "cancelled"
        /\ outcome[c] = Raised(ListSizeError)

(* C14: for a leaf of N tuples of width D in {2, 3} the rebuilt leaf has N *)
(* tuples of width D, and the transformer was called with D arrays of N    *)
(* values each.                                                            *)
C14_LengthAndWidthKept ==
    \A c \in Callers :
        \A i \in Ended(c) :
            LET in == args[c].column[i]
                out == futures[c][i].value
            IN  in.dim \in {2, 3} =>
                  /\ futures[c][i].state = "done" =>
                        /\ out.dim = in.dim
                        /\ NumTuples(out) = NumTuples(in)
                        /\ Len(out.coords) = NumTuples(in) * in.dim
                  /\ futures[c][i].state = "failed" =>
                        /\ out.type = "ProjError"
                        /\ Len(out.msg[2]) = in.dim
                        /\ \A a \in DOMAIN out.msg[2] :
                               Len(out.msg[2][a]) = NumTuples(in)

(* a column of two chunks with 2-wide leaves: the first leaf, of three     *)
(* tuples, was rebuilt, and the transformer failed on the two arrays of    *)
(* the second                                                              *)
C14_Witness ==
    \E c \in Callers :
        /\ Len(futures[c]) = 2
        /\ futures[c][1].state = "done"
        /\ args[c].column[1].dim = 2
        /\ NumTuples(futures[c][1].value) = 3
        /\ futures[c][1].value.dim = 2
        /\ futures[c][2].state = "failed"
        /\ Len(futures[c][2].value.msg[2]) = 2

(* C15: tuple k of the rebuilt leaf is the transformer's result for tuple  *)
(* k of the input leaf, its components in x, y[, z] order: flat position   *)
(* (k-1)*D+a (counted from 1) holds axis a of point k.                     *)
C15_PointsInPlace ==
    \A c \in Callers :
        \A i \in Ended(c) :
            futures[c][i].state = "done" =>
                LET in == args[c].column[i]
                    out == futures[c][i].value
                    D == in.dim
                    N == Len(in.coords) \div D
                    cols == [a \in 1..D |->
                                [k \in 1..N |-> in.coords[(k - 1) * D + a]]]
                IN  /\ DOMAIN out.coords = 1..(N * D)
                    /\ \A k \in 1..N : \A a \in 1..D :
                          out.coords[(k - 1) * D + a] =
                              TransformAxis(local[c].transformer, cols, a, k)

(* a leaf of three 3-wide tuples was rebuilt: the second point's x is at   *)
(* position 4 and its z at position 6                                      *)
C15_Witness ==
    \E c \in Callers :
        /\ futures[c] # <<>> /\ futures[c][1].state = "done"
        /\ LET in == args[c].column[1]
               out == futures[c][1].value
               t == local[c].transformer
           IN  /\ in.dim = 3
               /\ Len(in.coords) = 9
               /\ out.coords[4] = 2 * in.coords[4] + in.coords[5] + t.dst
               /\ out.coords[6] = in.coords[6] + 1
               /\ out.coords[4] # out.coords[1]

-----------------------------------------------------------------------------
(* The geometries of a column, whatever its chunks *)

(* the coordinate tuples of the leaf *)
Tuples(arr) ==
    [k \in 1..NumTuples(arr) |->
        SubSeq(arr.coords, (k - 1) * arr.dim + 1, k * arr.dim)]

(* the items grouped as the offsets say *)
Group(items, off) ==
    [g \in 1..(Len(off) - 1) |-> SubSeq(items, off[g] + 1, off[g + 1])]

(* the geometries of a chunk: each one its nested lists of tuples *)
Geometries(arr) ==
    LET n == Len(arr.offsets)
        t == Tuples(arr)
    IN  IF n = 0 THEN t
        ELSE IF n = 1 THEN Group(t, arr.offsets[1])
        ELSE IF n = 2 THEN Group(Group(t, arr.offsets[2]), arr.offsets[1])
        ELSE Group(Group(Group(t, arr.offsets[3]), arr.offsets[2]),
                   arr.offsets[1])

(* the geometries of the chunks k..Len(column), in order *)
RECURSIVE GeometriesFrom(_, _)
GeometriesFrom(column, k) ==
    IF k > Len(column) THEN <<>>
    ELSE Geometries(column[k]) \o GeometriesFrom(column, k + 1)

LogicalColumn(column) == GeometriesFrom(column, 1)

(* C16: two calls given the same geometries cut into chunks at different   *)
(* places return columns whose concatenated chunks hold, geometry by       *)
(* geometry, the same nesting and the same coordinates.                    *)
C16_ChunkingIndependent ==
    (/\ pc["t1"] = "returned" /\ pc["t2"] = "returned"
     /\ args["t1"].field = args["t2"].field
     /\ args["t1"].to_crs = args["t2"].to_crs
     /\ LogicalColumn(args["t1"].column) = LogicalColumn(args["t2"].column))
        => LogicalColumn(outcome["t1"].column)
               = LogicalColumn(outcome["t2"].column)

(* a multipolygon column given whole to t1 and in three chunks to t2: both *)
(* calls returned, and the geometries came back with other coordinates     *)
C16_Witness ==
    /\ pc["t1"] = "returned" /\ pc["t2"] = "returned"
    /\ args["t1"].field.metadata[ExtNameKey].text = MULTIPOLYGON
    /\ args["t1"].field = args["t2"].field
    /\ Len(args["t1"].column) = 1
    /\ Len(args["t2"].column) = 3
    /\ LogicalColumn(args["t1"].column) = LogicalColumn(args["t2"].column)
    /\ Len(LogicalColumn(outcome["t2"].column)) = 3
    /\ LogicalColumn(outcome["t2"].column) # LogicalColumn(args["t2"].column)

(* C17: no step of a call changes the field or the column the caller       *)
(* passed, whether the call returns or raises; what the path that          *)
(* transforms returns is another field, and a column made of the arrays    *)
(* the workers built.                                                      *)
C17_InputsNotMutated ==
    /\ [][\A c \in Callers : pc[c] # "idle" => args'[c] = args[c]]_vars
    /\ [](\A c \in Callers :
            TransformedReturn(c) =>
                /\ outcome[c].field # args[c].field
                /\ outcome[c].column = results[c]
                /\ \A i \in DOMAIN outcome[c].column :
                     outcome[c].column[i] = futures[c][i].value)

(* a linestring column of two chunks after a call that raised: the first   *)
(* chunk was transformed, the second failed, and the column is as given    *)
C17_Witness ==
    \E c \in Callers :
        /\ pc[c] = "raised"
        /\ Len(futures[c]) = 2
        /\ futures[c][1].state = "done"
        /\ futures[c][2].state = "failed"
        /\ futures[c][1].value.coords # args[c].column[1].coords
        /\ args[c].column = ColumnOf(1, 2, 2)
        /\ args[c].field = MakeField(LINESTRING, CRSStr("code", 1), TRUE,
                                     ColumnOf(1, 2, 2))

(* the field's CRS text *)
SourceCRS(c) == args[c].field.metadata[ExtMetaKey].obj["crs"]

(* pyproj cannot make a transformer of the call's source and destination *)
ConstructionFails(c) ==
    /\ Called(c)
    /\ FieldHasCRS(args[c].field)
    /\ IsError(CRS(SourceCRS(c))) \/ IsError(CRS(args[c].to_crs))

(* C19: a call whose source or destination CRS pyproj cannot make a        *)
(* transformer of ends raising pyproj's error as pyproj raised it; no      *)
(* chunk is submitted, nothing is cached, and construction is attempted    *)
(* at most once.                                                           *)
C19_ConstructionFailure ==
    \A c \in Callers :
        ConstructionFails(c) =>
            /\ futures[c] = <<>>
            /\ results[c] = <<>>
            /\ trace[c].submits = 0
            /\ trace[c].transforms = 0
            /\ trace[c].builds = 0
            /\ trace[c].lookups <= 1
            /\ ~HoldsTransformer(c)
            /\ cache = <<>>
            /\ nextHandle = 1
            /\ pc[c] \in {"lookup", "build", "raised"}
            /\ pc[c] = "raised" =>
                  outcome[c] = Raised(IF IsError(CRS(SourceCRS(c)))
                                      THEN CRS(SourceCRS(c))
                                      ELSE CRS(args[c].to_crs))

(* a polygon column in CRS 1 with a destination pyproj cannot parse: the   *)
(* cache was asked once and the call raised pyproj's error                 *)
C19_Witness ==
    \E c \in Callers :
        /\ pc[c] = "raised"
        /\ ExtensionName(c) = POLYGON
        /\ FieldHasCRS(args[c].field)
        /\ SourceCRS(c) = CRSStr("code", 1)
        /\ args[c].to_crs = BogusCRS
        /\ trace[c].lookups = 1
        /\ outcome[c] = Raised(Error("CRSError", "Invalid projection"))

-----------------------------------------------------------------------------
(* C20: read_file returns a GeoDataFrame when the table read has a column  *)
(* of the geometry name ("wkb_geometry" when the layer names none) and a   *)
(* plain DataFrame when it has not; it does not raise.                     *)
C20_ReadFileResult ==
    \A c \in Callers :
        pc[c] \in {"returned", "raised"} =>
            /\ pc[c] = "returned"
            /\ outcome[c].kind = "returned"
            /\ outcome[c].value.kind =
                  IF GeometryNameOr(local[c].metadata)
                        \in column_names(local[c].table)
                  THEN "GeoDataFrame" ELSE "DataFrame"

-----------------------------------------------------------------------------
(* C21 as stated: the series that comes back from geopandas is a GeoSeries *)
(* whose elements are those of s, one by one and in order.                 *)
C21_RoundTripEqual ==
    \A c \in Callers :
        pc[c] = "returned" =>
            /\ outcome[c].value.kind = "GeoSeries"
            /\ outcome[c].value.values = args[c].s.values

(* C21 as amended: the series that comes back is a GeoSeries of the same   *)
(* length with nulls where s has nulls and, elsewhere, the WKB shapely     *)
(* writes for the geometry the element of s encodes, in the same order; an *)
(* element of s comes back as it was exactly when it is little-endian WKB  *)
(* without SRID.                                                           *)
C21_RoundTripGeometries ==
    \A c \in Callers :
        pc[c] = "returned" =>
            LET in == args[c].s.values
                out == outcome[c].value.values
            IN  /\ outcome[c].value.kind = "GeoSeries"
                /\ Len(out) = Len(in)
                /\ \A i \in DOMAIN in :
                     /\ in[i] = None <=> out[i] = None
                     /\ in[i] # None =>
                          /\ out[i].kind = "wkb"
                          /\ out[i].geom = in[i].geom
                          /\ out[i] = in[i] <=>
                                (in[i].byte_order = "little" /\ ~in[i].srid)

(* a series of a little-endian WKB of geometry 2 and a big-endian EWKB of  *)
(* geometry 1 came back: the first element as it was, the second re-encoded *)
C21_Witness ==
    \E c \in Callers :
        /\ pc[c] = "returned"
        /\ args[c].s.values = <<Wkb("little", FALSE, 2), Wkb("big", TRUE, 1)>>
        /\ outcome[c].value.values[1] = args[c].s.values[1]
        /\ outcome[c].value.values[2] = Wkb("little", FALSE, 1)

-----------------------------------------------------------------------------
(* The pool *)

Running(c) == NumInState(futures[c], "running")

(* C22: a call that has returned or raised has no worker still running,    *)
(* and, the threads being scheduled and every func(chunk) ending, a call   *)
(* that was made returns or raises.                                        *)
C22_ReturnsAfterWorkers ==
    /\ [](\A c \in Callers : Finished(c) => Running(c) = 0)
    /\ \A c \in Callers : Called(c) ~> Finished(c)

(* the first chunk failed and the error is on its way to the caller, who   *)
(* is held in the pool's shutdown while the second chunk is transformed    *)
C22_Witness ==
    \E c \in Callers :
        /\ pc[c] = "shutdown"
        /\ outcome[c].kind = "raised"
        /\ Len(futures[c]) = 3
        /\ futures[c][1].state = "failed"
        /\ futures[c][2].state = "running"
        /\ futures[c][3].state = "cancelled"

(* the chunks whose func(chunk) ended, as a set *)
Transformed(c) == {trace[c].order[k] : k \in DOMAIN trace[c].order}

(* C23: with max_workers given, no more than max_workers chunks of a call  *)
(* are being transformed at any time; no chunk is transformed twice, and a *)
(* call that returns transformed every chunk once.                         *)
C23_WorkerBound ==
    \A c \in Callers :
        futures[c] # <<>> =>
            /\ args[c].max_workers.kind = "int" =>
                  Running(c) <= args[c].max_workers.value
            /\ Cardinality(Transformed(c)) = Len(trace[c].order)
            /\ Transformed(c) = Ended(c)
            /\ pc[c] = "returned" => Transformed(c) = DOMAIN args[c].column

(* three chunks and max_workers=2: two are being transformed, the third    *)
(* waits                                                                   *)
C23_Witness ==
    \E c \in Callers :
        /\ Len(futures[c]) = 3
        /\ args[c].max_workers = IntArg(2)
        /\ futures[c][1].state = "running"
        /\ futures[c][2].state = "running"
        /\ futures[c][3].state = "pending"

-----------------------------------------------------------------------------
(* The phases of a call *)

(* the phases that may follow a phase: Idle and Done are "idle",           *)
(* "returned" and "raised"; Resolving-CRS is the step out of them;         *)
(* Transforming is "lookup" to "shutdown"; Rebuilding is the step from     *)
(* "shutdown" to "returned"                                                *)
Successors(phase) ==
    CASE phase \in {"idle", "returned", "raised"} ->
             {"returned", "raised", "lookup"}
      [] phase = "lookup" -> {"dispatch", "build"}
      [] phase = "build" -> {"insert", "raised"}
      [] phase = "insert" -> {"dispatch"}
      [] phase = "dispatch" -> {"collect", "raised"}
      [] phase = "collect" -> {"collect", "shutdown"}
      [] phase = "shutdown" -> {"returned", "raised"}

AllTransformed(c) ==
    /\ \A i \in DOMAIN futures[c] : futures[c][i].state = "done"
    /\ Len(results[c]) = Len(args[c].column)

(* C24: a call goes from Idle through resolving the CRS to Identity-Return *)
(* or through Transforming and Rebuilding to Done: the cache is asked only *)
(* with the source CRS resolved, chunks are submitted only with the        *)
(* transformer in hand, the new field is built only when every chunk was   *)
(* transformed and its result taken; a step of the call leaves its inputs  *)
(* as they were, and changes the cache in the lookup and the insert only.  *)
C24_Phases ==
    /\ [][\A c \in Callers :
            /\ pc'[c] # pc[c] => pc'[c] \in Successors(pc[c])
            /\ (pc[c] = "shutdown" /\ pc'[c] = "returned") => AllTransformed(c)
            /\ (Called(c) /\ ~Finished(c)) => args'[c] = args[c]
            /\ (Finished(c) /\ pc'[c] = pc[c]) => args'[c] = args[c]
          ]_vars
    /\ [][cache' # cache =>
            \E c \in Callers : pc[c] \in {"lookup", "insert"} /\ pc'[c] # pc[c]
          ]_vars
    /\ [](\A c \in Callers :
            /\ trace[c].lookups > 0 => local[c].existing_crs.kind = "CRS"
            /\ futures[c] # <<>> => HoldsTransformer(c)
            /\ (IdentityCall(c) /\ local[c].existing_crs # None) =>
                   pc[c] = "returned" /\ trace[c].lookups = 0)

(* a call went through every phase: it asked the cache, built and stored   *)
(* the transformer, transformed three chunks and returned                  *)
C24_Witness ==
    \E c \in Callers :
        /\ TransformedReturn(c)
        /\ Len(futures[c]) = 3
        /\ trace[c].builds = 1
        /\ Len(cache) = 1
        /\ Len(outcome[c].column) = 3

-----------------------------------------------------------------------------
(* The cache after a call that failed *)

-----------------------------------------------------------------------------
(* What a chunk's result depends on *)

(* what func makes of a chunk with the call's transformer, pyproj          *)
(* succeeding or failing                                                   *)
ChunkResults(c, chunk) ==
    {ApplyFunc(SelectFunc(ExtensionName(c)), chunk, local[c].transformer, env) :
        env \in BOOLEAN}

(* C27: two calls that hold the same transformer and agree on one chunk,   *)
(* whatever their other chunks, their worker counts and the order in which *)
(* their workers ran, have the same result for that chunk; the result of a *)
(* chunk is a function of that chunk and the transformer, and the worker   *)
(* that ends changes its own future and no chunk and no other future.      *)
C27_ChunkIndependence ==
    /\ [](\A i \in DOMAIN futures["t1"], j \in DOMAIN futures["t2"] :
            (/\ futures["t1"][i].state = "done"
             /\ futures["t2"][j].state = "done"
             /\ local["t1"].transformer = local["t2"].transformer
             /\ args["t1"].field = args["t2"].field
             /\ args["t1"].column[i] = args["t2"].column[j])
                => futures["t1"][i].value = futures["t2"][j].value)
    /\ [][\A c \in Callers : \A i \in DOMAIN futures[c] :
            (/\ futures[c][i].state = "running"
             /\ i \in DOMAIN futures'[c]
             /\ futures'[c][i].state \in {"done", "failed"})
                => /\ futures'[c][i].value \in ChunkResults(c, args[c].column[i])
                   /\ args'[c].column = args[c].column
                   /\ \A j \in DOMAIN futures[c] :
                         j # i => futures'[c][j] = futures[c][j]
          ]_vars

(* the two calls have the same first chunk and differ in their other       *)
(* chunks and in their worker counts, and both transformed the first chunk *)
C27_Witness ==
    /\ Len(futures["t1"]) = 3
    /\ Len(futures["t2"]) = 2
    /\ args["t1"].max_workers = None
    /\ args["t2"].max_workers = IntArg(1)
    /\ args["t1"].column[1] = args["t2"].column[1]
    /\ args["t1"].column[2] # args["t2"].column[2]
    /\ args["t1"].column[1] # args["t1"].column[2]
    /\ futures["t1"][1].state = "done"
    /\ futures["t2"][1].state = "done"
    /\ local["t1"].transformer = local["t2"].transformer

-----------------------------------------------------------------------------
(* Decomposition and recomposition *)

(* the offset arrays captured on the way in: list_offsets of the array,    *)
(* of its flattening, and so on, outermost first                           *)
Captured(arr, depth) ==
    [l \in 1..depth |->
        IF l = 1 THEN list_offsets(arr)
        ELSE IF l = 2 THEN list_offsets(list_flatten(arr))
        ELSE list_offsets(list_flatten(list_flatten(arr)))]

(* C25: the routine of depth d in 1..3 rebuilds the array with the d       *)
(* offset arrays it captured, the innermost around the new leaf and the    *)
(* outermost last, so that the result has the input's offsets level by     *)
(* level and, the callback returning the leaf unchanged, is the input; the *)
(* routine of depth 0 returns what the callback makes of the array itself  *)
(* and has no offsets.                                                     *)
C25_RecomposeInverse ==
    \A c \in Callers :
        pc[c] = "returned" =>
            LET arr == args[c].arr
                depth == args[c].depth
                out == outcome[c].value
            IN  /\ Len(out.offsets) = depth
                /\ out.offsets = Captured(arr, depth)
                /\ out.offsets = arr.offsets
                /\ args[c].transformer = NoopTransformer => out = arr
                /\ depth = 0 =>
                      /\ out.offsets = <<>>
                      /\ out = _reproject_coords(arr, args[c].transformer, TRUE)

(* a polygon array whose geometry offsets and ring offsets differ went     *)
(* through the routine of depth 2 with the callback that changes nothing   *)
C25_Witness ==
    \E c \in Callers :
        /\ pc[c] = "returned"
        /\ args[c].depth = 2
        /\ args[c].transformer = NoopTransformer
        /\ args[c].arr.offsets[1] # args[c].arr.offsets[2]
        /\ NumTuples(args[c].arr) > 0
        /\ outcome[c].value = args[c].arr

(* the nesting of an array with each tuple replaced by its position in the *)
(* leaf                                                                    *)
Skeleton(arr) ==
    Geometries(Arr(arr.offsets, 1, [k \in 1..NumTuples(arr) |-> k]))

HasEmptyChild(arr) ==
    \E l \in DOMAIN arr.offsets :
        \E i \in 1..(Len(arr.offsets[l]) - 1) :
            arr.offsets[l][i] = arr.offsets[l][i + 1]

(* C26: an array with an empty child at any level (two equal consecutive   *)
(* offsets: a geometry without parts, a part without rings, a ring without *)
(* coordinates) goes through the routine without error when its leaf is    *)
(* two or three wide, and comes back with the same nesting: empty lists    *)
(* where they were, and every other list holding the tuples at the same    *)
(* positions of the leaf.                                                  *)
C26_EmptyChildrenKept ==
    \A c \in Callers :
        (Called(c) /\ HasEmptyChild(args[c].arr)) =>
            /\ args[c].arr.dim \in {2, 3} => pc[c] = "returned"
            /\ pc[c] = "returned" =>
                  /\ Skeleton(outcome[c].value) = Skeleton(args[c].arr)
                  /\ NumTuples(outcome[c].value) = NumTuples(args[c].arr)
                  /\ \A l \in 1..args[c].depth :
                        outcome[c].value.offsets[l] = args[c].arr.offsets[l]

(* a multipolygon array whose second geometry has a part with no rings at  *)
(* all came back with an empty list of rings in its place                  *)
C26_Witness ==
    \E c \in Callers :
        /\ pc[c] = "returned"
        /\ args[c].arr = EmptyAt(3, 2, 2)
        /\ args[c].transformer # NoopTransformer
        /\ Geometries(outcome[c].value)[2] = << <<>> >>
        /\ Len(Geometries(outcome[c].value)[3][1][1]) = 1

-----------------------------------------------------------------------------
(* GeoDataFrame *)

(* geometry(name) has been called on the frame of c and has ended *)
GeometryEnded(c) == Finished(c) /\ local[c].frame # None

(* the column geometry(name) is asked for *)
Asked(c) ==
    IF args[c].name # None THEN args[c].name.text
    ELSE CHOOSE n \in DOMAIN local[c].frame.column_types : TRUE

(* C29: geometry() without a name returns the geometry column when one is  *)
(* registered and raises ValueError when none or several are; geometry(n)  *)
(* raises ValueError unless n is a registered geometry column; what is     *)
(* returned is a GeoSeries that carries the GeoArrow type and the metadata *)
(* registered for the column.                                              *)
C29_Geometry ==
    \A c \in Callers :
        GeometryEnded(c) =>
            LET self == local[c].frame
                registered == DOMAIN self.column_types
                returns == IF args[c].name = None THEN Cardinality(registered) = 1
                           ELSE args[c].name.text \in registered
            IN  IF returns
                THEN /\ pc[c] = "returned"
                     /\ outcome[c].value.kind = "GeoSeries"
                     /\ outcome[c].value.name = Asked(c)
                     /\ "ga_type" \in DOMAIN outcome[c].value
                     /\ outcome[c].value.ga_type = self.column_types[Asked(c)]
                     /\ "ga_meta" \in DOMAIN outcome[c].value
                     /\ outcome[c].value.ga_meta
                           = DictGet(self.column_metadata, Asked(c))
                ELSE /\ pc[c] = "raised"
                     /\ outcome[c].error.type = "ValueError"

(* the GeoArrow fields of a table *)
GeoFields(table) ==
    {n \in column_names(table) :
        /\ ExtNameKey \in DOMAIN table.fields[n]
        /\ table.fields[n][ExtNameKey].text \in GeoArrowExtensionName}

(* C30: the table exported by a GeoDataFrame that was built from a table   *)
(* has, for every GeoArrow field of that table, the field metadata the     *)
(* field came with (the extension name, and the extension metadata if and  *)
(* only if it came with one, the same text), and no extension metadata on  *)
(* the other fields.                                                       *)
C30_ArrowRoundTrip ==
    \A c \in Callers :
        (pc[c] = "exported" /\ local[c].table # None) =>
            LET table == local[c].table
                out == outcome[c].value
            IN  /\ column_names(out) = column_names(table)
                /\ \A n \in column_names(table) :
                      IF n \in GeoFields(table)
                      THEN out.fields[n] = table.fields[n]
                      ELSE /\ ExtNameKey \notin DOMAIN out.fields[n]
                           /\ ExtMetaKey \notin DOMAIN out.fields[n]

====
